---- MODULE Spec2Model ----
(***************************************************************************)
(* Model of the credential-free discovery and fan-out search engine of     *)
(* tools/content-suite/reddit_scout_noapi.py.                              *)
(*                                                                         *)
(* Spec      : fetch_posts_noapi from the point where a QueryPlan exists:  *)
(*             _fan_out_search (Phase 1, Phase 2, global fallback), the    *)
(*             truncation to post_limit and the comment-enrichment loop.   *)
(* SpecFetch : _fetch_json, one HTTP GET attempt per step.                 *)
(* SpecSanitize : _sanitize_query applied once and twice to a query.       *)
(* SpecFind  : find_subreddits, one upstream request per step, then the    *)
(*             ranking and the selection.                                  *)
(* SpecPlan  : Step 1 of fetch_posts_noapi, the construction of the plan   *)
(*             (user-specified, LLM with existence checks, or fallback).   *)
(* SpecEnrich : Step 4 of fetch_posts_noapi, the comment loop, with the    *)
(*             reply lists of the posts.                                   *)
(* SpecKeywords : _query_keywords and _relevance_score.                    *)
(* SpecRetry : with_retry of factory_utils.py, one attempt per step.       *)
(* SpecPages : the pagination loop of _search_posts, one page per step;    *)
(*             SpecPagesFair adds that the loop goes on while it can.      *)
(* SpecEnv   : the REDDIT_LLM_EXPANSION setting across Step 1.             *)
(*                                                                         *)
(* A query is a sequence of one-character strings.  The wall clock is the  *)
(* boolean `expired` (time.monotonic() > deadline); it can become true     *)
(* between any two steps and never becomes false again.  Upstream post     *)
(* identifiers are opaque to the code, so the k-th distinct identifier the *)
(* upstream ever serves is named k.                                        *)
(***************************************************************************)
EXTENDS Integers, Sequences, FiniteSets, TLC

(***************************************************************************)
(* Bounds of the model.                                                    *)
(***************************************************************************)
MaxSubs == 2        \* communities in a plan
MaxQueries == 2     \* queries in one query list
MaxId == 6          \* distinct post identifiers the upstream serves
MaxResp == 3        \* posts the upstream returns for one search
MaxLimit == 6       \* largest post_limit
MaxCalls == 2       \* _fetch_json calls in one SpecFetch run
MaxQueryLen == 4    \* characters of a query handed to _sanitize_query alone
MaxWanted == 2      \* largest max_subs of a find_subreddits call
MaxKeywords == 2    \* keywords of the query of a find_subreddits call
MaxChildren == 1    \* children in one listing returned to find_subreddits
MaxSuggested == 1   \* names the LLM suggests to find_subreddits
MaxListed == 4      \* communities an LLM response or a discovery lists
MaxPosts == 3       \* posts handed to the comment loop of SpecEnrich
MaxTopicWords == 3  \* words of a topic handed to _query_keywords
MaxThread == 6      \* replies in one comments listing of the upstream
MaxRetries == 4     \* largest max_retries handed to with_retry
MaxPageLimit == 3    \* largest limit handed to _search_posts in SpecPages
MaxPageId == 2       \* distinct post identifiers the pages of SpecPages carry
MaxPage == 2         \* posts on one page
MaxPageRequests == 3 \* the count of page requests is kept up to this number
MaxDelay == 3       \* largest initial_delay handed to with_retry

(***************************************************************************)
(* Program constants.                                                      *)
(***************************************************************************)
MinPerQuery == 2            \* max(2, ...) in per_query_limit
MaxPerQuery == 5            \* min(5, ...) in per_query_limit
MinThreshold == 5           \* max(5, ...) in the global-fallback threshold
ThresholdDivisor == 4       \* post_limit // 4
NicheDivisor == 4            \* max_subs // 4
NicheLimit == 1000          \* subs < 1000
LlmBonus == 3               \* score + 3
MaxGapFills == 5            \* unknowns[:5]
MaxChecks == 20             \* _validate_subreddits(..., max_checks=20)
DEFAULT_COMMENT_LIMIT == 5  \* reddit_scout.DEFAULT_COMMENT_LIMIT
\* mutant: the third delay does not double
BackoffDelaysLinear == <<5, 10, 15>>

BackoffDelays == <<5, 10, 20>>      \* _429_BACKOFF_DELAYS

(***************************************************************************)
(* Generic helpers.                                                        *)
(***************************************************************************)
Max(a, b) == IF a >= b THEN a ELSE b
Min(a, b) == IF a <= b THEN a ELSE b
Range(s) == {s[k] : k \in 1..Len(s)}
NoDup(s) == \A a, b \in 1..Len(s) : s[a] = s[b] => a = b
SeqsUpTo(S, n) == UNION {[1..k -> S] : k \in 0..n}

\* Python slice s[:n] for n >= 0
Take(s, n) == SubSeq(s, 1, Min(n, Len(s)))

(***************************************************************************)
(* _sanitize_query, character by character.                                *)
(***************************************************************************)
WordChars == {"A", "N", "D", "a", "b", "x", "y", "O", "R"}
IsWord(c) == c \in WordChars

\* \b at the gap before position p of s (p in 1..Len(s)+1)
Boundary(s, p) ==
    LET left == p > 1 /\ IsWord(s[p - 1])
        right == p <= Len(s) /\ IsWord(s[p])
    IN left # right

\* a match of \bAND\b starts at position p of s
AndAt(s, p) ==
    /\ p + 2 <= Len(s)
    /\ s[p] = "A" /\ s[p + 1] = "N" /\ s[p + 2] = "D"
    /\ Boundary(s, p) /\ Boundary(s, p + 3)

\* re.sub(r'\bAND\b', '', s): non-overlapping matches, left to right
RECURSIVE StripAndFrom(_, _)
StripAndFrom(s, p) ==
    IF p > Len(s) THEN <<>>
    ELSE IF AndAt(s, p) THEN StripAndFrom(s, p + 3)
    ELSE <<s[p]>> \o StripAndFrom(s, p + 1)

\* re.sub(r'[()]', '', s)
StripParens(s) == SelectSeq(s, LAMBDA c : c \notin {"(", ")"})

\* \s
IsSpace(c) == c \in {" ", "\t"}

\* re.sub(r'\s+', ' ', s).strip()
RECURSIVE CollapseFrom(_, _, _)
CollapseFrom(s, p, out) ==
    IF p > Len(s) THEN out
    ELSE IF IsSpace(s[p])
         THEN CollapseFrom(s, p + 1,
                 IF out = <<>> \/ out[Len(out)] = " " THEN out ELSE Append(out, " "))
         ELSE CollapseFrom(s, p + 1, Append(out, s[p]))
StripTrailing(s) ==
    IF s # <<>> /\ s[Len(s)] = " " THEN SubSeq(s, 1, Len(s) - 1) ELSE s
CollapseWs(s) == StripTrailing(CollapseFrom(s, 1, <<>>))

_sanitize_query(query) == CollapseWs(StripParens(StripAndFrom(query, 1)))

\* mutant: every empty result is retried
HasQuoteAlways(query) == TRUE

\* '"' in query_str
HasQuote(query) == \E k \in 1..Len(query) : query[k] = "\""

\* query_str.replace('"', '')
StripQuotes(query) == SelectSeq(query, LAMBDA c : c # "\"")

(***************************************************************************)
(* QueryPlan and the inputs of one run.                                    *)
(***************************************************************************)
Subs == {"A", "B"}

QPlain == <<"a">>
QQuoted == <<"\"", "a", "\"">>
QParen == <<"(", ")">>
\* per-community query lists; the empty list stands for a community without
\* an entry of its own in sub_queries (queries_for_sub treats both alike)
SubQueryLists == {l \in SeqsUpTo({QPlain, QQuoted}, MaxQueries) : NoDup(l)}

\* global_queries is non-empty on every construction path
\* (_parse_query_plan, _build_fallback_query_plan, _build_user_specified_plan)
GlobalQueryLists ==
    {l \in SeqsUpTo({QPlain, QParen}, MaxQueries) : l # <<>> /\ NoDup(l)}

\* Communities are named in order of first appearance in the plan.
SubredditLists ==
    {l \in SeqsUpTo(Subs, MaxSubs) :
        \A k \in 1..Len(l) : l[k] = "B" => \E m \in 1..(k - 1) : l[m] = "A"}

Plans ==
    {p \in [subreddits : SubredditLists,
            sub_queries : [Subs -> SubQueryLists],
            global_queries : GlobalQueryLists] :
        \A s \in Subs : s \notin Range(p.subreddits) => p.sub_queries[s] = <<>>}

PostLimits == 0..MaxLimit

\* QueryPlan.queries_for_sub
queries_for_sub(p, sub_name) ==
    IF p.sub_queries[sub_name] # <<>> THEN p.sub_queries[sub_name]
    ELSE p.global_queries

\* mutant: the budget is not capped at 5
per_query_limit_uncapped(p, limit) ==
    Max(MinPerQuery, limit \div Max(Len(p.subreddits), 1))

\* per_query_limit = max(2, min(5, post_limit // max(num_subs, 1)))
per_query_limit(p, limit) ==
    Max(MinPerQuery, Min(MaxPerQuery, limit \div Max(Len(p.subreddits), 1)))

\* mutant: the floor of 5 is missing
ThresholdNoFloor(limit) == limit \div ThresholdDivisor

\* threshold = max(5, post_limit // 4)
Threshold(limit) == Max(MinThreshold, limit \div ThresholdDivisor)

\* mutant: the list is returned whole
TruncateNone(posts, limit) == posts

\* return all_posts[:post_limit]
Truncate(posts, limit) == Take(posts, limit)

(***************************************************************************)
(* State.                                                                  *)
(***************************************************************************)
VARIABLES
    plan, post_limit,       \* arguments of _fan_out_search
    pc,                     \* position in fetch_posts_noapi / _fan_out_search
    expired,                \* time.monotonic() > deadline
    all_posts, seen_ids, yielding_subs, queries_executed, quote_retries,
    i,                      \* Phase 1: index of the next community
    j, q,                   \* Phase 2: index into yielding_subs, into its queries
    g,                      \* global fallback: index of the next global query
    c,                      \* comment loop: index of the next post
    result,                 \* the list _fan_out_search returned
    meta,                   \* search_metadata
    served,                 \* identifiers in the order the upstream first served them
    runs,                   \* the _run_query calls made so far
    expiredAt,              \* when the deadline passed: "never", "phase1" (a
                            \* community of the plan was still unvisited), "later"
    contributed,            \* communities whose Phase 1 search served an
                            \* identifier not served before
    cut,                    \* phases the deadline stopped with work left:
                            \* "p1", "p2", "gf", "cm"; "gf_late" when the
                            \* deadline had passed at the global-fallback test
    p1_posts,               \* posts collected when Phase 1 ended
    fetch,                  \* state of the _fetch_json run (SpecFetch)
    san,                    \* _sanitize_query applied once and twice
                            \* (SpecSanitize)
    find,                   \* state of the find_subreddits run (SpecFind)
    build,                  \* Step 1 of fetch_posts_noapi, the plan being
                            \* built (SpecPlan)
    enrich,                 \* Step 4 of fetch_posts_noapi, the comment loop
                            \* with the reply lists (SpecEnrich)
    kwds,                   \* _query_keywords and _relevance_score applied to
                            \* a topic and a community (SpecKeywords)
    retrying,               \* with_retry applied to a callable (SpecRetry)
    pages,                  \* the pagination loop of _search_posts (SpecPages)
    env                     \* REDDIT_LLM_EXPANSION across Step 1 of fetch_posts_noapi (SpecEnv)

mainVars == <<plan, post_limit, pc, expired, all_posts, seen_ids, yielding_subs,
              queries_executed, quote_retries, i, j, q, g, c, result, meta,
              served, runs, expiredAt, contributed, cut, p1_posts>>
extVars == <<retrying, pages, env>>
auxVars == <<enrich, kwds, extVars>>
sideVars == <<fetch, san, find, build, auxVars>>
vars == <<mainVars, sideVars>>

\* the warnings the code records
P1Warning == "Pipeline timeout during Phase 1 breadth"
CommentWarning == "Pipeline timeout during comment fetch"

\* search_metadata as initialised by fetch_posts_noapi
InitialMeta ==
    [subreddits_searched |-> 0, subreddits_yielded |-> 0,
     total_queries_executed |-> 0, posts_before_dedup |-> 0,
     posts_after_dedup |-> 0, global_fallback_triggered |-> FALSE,
     warnings |-> <<>>, has_elapsed_seconds |-> FALSE]

\* _sanitize_query has not been called
NoSan == [pc |-> "idle", query |-> <<>>, once |-> <<>>, twice |-> <<>>]

\* find_subreddits has not been called
NoFind == [pc |-> "idle", max_subs |-> 0, slug |-> FALSE, kw |-> 0,
           candidates |-> <<>>, llm_validated |-> {}, scored |-> <<>>,
           t |-> 1, u |-> 1, unknowns |-> <<>>, reqs |-> <<>>,
           present |-> FALSE, selected |-> <<>>, adult |-> {}]

\* plan is None
NoPlan == [intent |-> "", subreddits |-> <<>>, sub_queries |-> <<>>,
           global_queries |-> <<>>, source |-> "none"]

\* no JSON object came out of the LLM call
NoParsed == [subreddits |-> <<>>, sub_queries |-> <<>>, global_queries |-> <<>>,
             intent |-> ""]

\* search_metadata, the fields Step 1 writes
InitialPlanMeta ==
    [plan_source |-> "unknown", subreddits_suggested |-> 0,
     subreddits_validated |-> 0, warnings |-> <<>>]

\* fetch_posts_noapi has not been called
NoBuild == [pc |-> "idle", subreddit |-> "", same |-> FALSE, plan |-> NoPlan,
            meta |-> InitialPlanMeta,
            llm |-> [kind |-> "none", parsed |-> NoParsed],
            discovered |-> FALSE, checks |-> <<>>]

\* no _fetch_json call has been made
NoFetch == [pc |-> "idle", attempt |-> 0, calls |-> 0, gets |-> <<>>,
            slept |-> <<>>, results |-> <<>>]

\* the comment loop has not been entered
NoEnrich == [pc |-> "idle", posts |-> <<>>, idx |-> 1, top_comments |-> <<>>,
             requests |-> <<>>, expired |-> FALSE, warnings |-> <<>>,
             returned |-> <<>>]

\* _query_keywords has not been called
NoKwds == [pc |-> "idle", topic |-> <<>>, name |-> <<>>, description |-> <<>>,
           keywords |-> <<>>, score |-> 0]

\* with_retry has not been called
NoRetry == [pc |-> "idle", max_retries |-> 0, initial_delay |-> 0, attempt |-> 1,
            delay |-> 0, last_exc |-> 0, calls |-> <<>>, sleeps |-> <<>>,
            outcome |-> "none", value |-> 0]

\* _search_posts has not been called
NoPages == [pc |-> "idle", limit |-> 0, collected |-> <<>>, seen_ids |-> {},
            after |-> FALSE, requests |-> 0, odd |-> FALSE, slept |-> 0,
            expired |-> FALSE, late |-> FALSE]

\* os.environ has no REDDIT_LLM_EXPANSION
Unset == "(unset)"

\* fetch_posts_noapi has not been called
NoEnv == [pc |-> "idle", subreddit |-> FALSE, initial |-> Unset, value |-> Unset,
          prev_llm |-> Unset, path |-> "none", writes |-> <<>>,
          llm_calls |-> 0, raised |-> FALSE]

\* every specification but those of the variables declared last is idle
BaseIdle ==
    /\ fetch = NoFetch /\ san = NoSan /\ find = NoFind /\ build = NoBuild
    /\ enrich = NoEnrich /\ kwds = NoKwds

ExtIdle == retrying = NoRetry /\ pages = NoPages /\ env = NoEnv

AuxIdle == enrich = NoEnrich /\ kwds = NoKwds /\ ExtIdle

Init ==
    /\ plan \in Plans
    /\ post_limit \in PostLimits
    /\ pc = "p1"
    /\ expired = FALSE
    /\ all_posts = <<>> /\ seen_ids = {} /\ yielding_subs = <<>>
    /\ queries_executed = 0 /\ quote_retries = 0
    /\ i = 1 /\ j = 1 /\ q = 2 /\ g = 1 /\ c = 1
    /\ result = <<>>
    /\ meta = InitialMeta
    /\ served = <<>> /\ runs = <<>>
    /\ expiredAt = "never"
    /\ contributed = {}
    /\ cut = {}
    /\ p1_posts = 0
    /\ fetch = NoFetch
    /\ san = NoSan
    /\ find = NoFind
    /\ build = NoBuild
    /\ AuxIdle

(***************************************************************************)
(* The upstream search endpoint as seen through _search_posts.             *)
(***************************************************************************)
\* r names every identifier it introduces with the next unused number
Canonical(r, known) ==
    \A p \in 1..Len(r) :
        r[p] <= 1 + Max(known, IF p = 1 THEN 0
                               ELSE CHOOSE m \in Range(SubSeq(r, 1, p - 1)) :
                                      \A x \in Range(SubSeq(r, 1, p - 1)) : x <= m)

\* _search_posts(session, query, sort, subreddit, limit): a duplicate-free list
\* of at most `limit` posts; empty when the first page is absent or empty.
_search_posts(limit) ==
    IF limit <= 0 THEN {<<>>}
    ELSE {r \in SeqsUpTo(1..MaxId, Min(limit, MaxResp)) :
             NoDup(r) /\ Canonical(r, Len(served))}

\* _fan_out_search._run_query: the lists the call can return
_run_query(query_str, limit) ==
    IF _sanitize_query(query_str) = <<>> THEN {<<>>} ELSE _search_posts(limit)

\* queries_executed after _run_query(query_str, ...)
Executed(n, query_str) ==
    IF _sanitize_query(query_str) = <<>> THEN n ELSE n + 1

\* mutant: every post is appended, seen or not
_collect_no_dedup(posts, all, seen) ==
    [all |-> all \o posts, seen |-> seen \cup Range(posts), added |-> Len(posts)]

\* _fan_out_search._collect
RECURSIVE _collect(_, _, _)
_collect(posts, all, seen) ==
    IF posts = <<>> THEN [all |-> all, seen |-> seen, added |-> 0]
    ELSE IF Head(posts) \notin seen
         THEN LET r == _collect(Tail(posts), Append(all, Head(posts)),
                                seen \cup {Head(posts)})
              IN [r EXCEPT !.added = @ + 1]
         ELSE _collect(Tail(posts), all, seen)

\* the upstream's record of first sightings
RECURSIVE ServedAfter(_, _)
ServedAfter(log, posts) ==
    IF posts = <<>> THEN log
    ELSE ServedAfter(IF \E k \in 1..Len(log) : log[k] = Head(posts)
                     THEN log ELSE Append(log, Head(posts)),
                     Tail(posts))

\* one _run_query call: `sent` when it reached the upstream, `slept` when the
\* loop's _sleep() follows it before the next _run_query call, `added` the
\* number of posts _collect takes from it (new_count)
RunEntry(phase, sub, query_str, limit, retry, posts, slept) ==
    [phase |-> phase, sub |-> sub, query |-> query_str, limit |-> limit,
     retry |-> retry, sent |-> _sanitize_query(query_str) # <<>> /\ limit > 0,
     zero |-> posts = <<>>, late |-> expired, slept |-> slept,
     added |-> _collect(posts, all_posts, seen_ids).added]

(***************************************************************************)
(* The deadline.                                                           *)
(***************************************************************************)
\* _fan_out_search._timed_out
_timed_out == expired

\* The wall clock passes the deadline; it may do so between any two steps.
Tick ==
    /\ pc # "done"
    /\ ~expired
    /\ expired' = TRUE
    /\ expiredAt' = IF \/ pc = "p1" /\ i <= Len(plan.subreddits)
                       \/ pc = "p1retry" /\ i < Len(plan.subreddits)
                    THEN "phase1"
                    ELSE "later"
    /\ UNCHANGED <<p1_posts, plan, post_limit, pc, all_posts, seen_ids, yielding_subs,
                   queries_executed, quote_retries, i, j, q, g, c, result,
                   meta, served, runs, contributed, cut, sideVars>>

(***************************************************************************)
(* _fan_out_search, Phase 1 (breadth).                                     *)
(***************************************************************************)
\* mutant: a community yields as soon as its search returned anything
YieldsAny(posts, added) == posts # <<>>

\* if new_count > 0: yielding_subs.append(sub)
Yields(posts, added) == added > 0

\* search_metadata["subreddits_searched"], ["subreddits_yielded"] after Phase 1
AfterPhase1(m, warn) ==
    [m EXCEPT !.warnings = IF warn THEN Append(@, P1Warning) ELSE @,
              !.subreddits_searched = Len(plan.subreddits),
              !.subreddits_yielded = Len(yielding_subs)]

\* _collect(posts); if new_count > 0: yielding_subs.append(sub); _sleep()
Phase1Collect(sub, posts) ==
    LET r == _collect(posts, all_posts, seen_ids)
    IN /\ all_posts' = r.all
       /\ seen_ids' = r.seen
       /\ yielding_subs' = IF Yields(posts, r.added)
                           THEN Append(yielding_subs, sub) ELSE yielding_subs
       /\ served' = ServedAfter(served, posts)
       /\ contributed' = IF Len(ServedAfter(served, posts)) > Len(served)
                         THEN contributed \cup {sub} ELSE contributed
       /\ i' = i + 1
       /\ pc' = "p1"

\* mutant: Phase 1 also stops once the cap is reached
Phase1StopsAtCap == _timed_out \/ Len(all_posts) >= post_limit

\* if _timed_out(): the only condition that stops the Phase 1 loop early
Phase1Stops == _timed_out

\* loop head: the deadline has passed, record the warning and leave the loop
Phase1Timeout ==
    /\ pc = "p1" /\ i <= Len(plan.subreddits)
    /\ Phase1Stops
    /\ meta' = AfterPhase1(meta, TRUE)
    /\ pc' = "p2" /\ j' = 1 /\ q' = 2
    /\ p1_posts' = Len(all_posts)
    /\ cut' = cut \cup {"p1"}
    /\ UNCHANGED <<plan, post_limit, expired, all_posts, seen_ids, yielding_subs,
                   queries_executed, quote_retries, i, g, c, result, served,
                   runs, expiredAt, sideVars, contributed>>

\* one iteration: the community's first query
Phase1Search ==
    /\ pc = "p1" /\ i <= Len(plan.subreddits)
    /\ ~Phase1Stops
    /\ LET sub == plan.subreddits[i]
           queries == queries_for_sub(plan, sub)
           limit == per_query_limit(plan, post_limit)
       IN IF queries = <<>>
          THEN /\ i' = i + 1
               /\ UNCHANGED <<pc, all_posts, seen_ids, yielding_subs,
                              queries_executed, served, runs, contributed>>
          ELSE \E posts \in _run_query(queries[1], limit) :
                 /\ queries_executed' = Executed(queries_executed, queries[1])
                 /\ runs' = Append(runs, RunEntry("p1", sub, queries[1], limit,
                                FALSE, posts,
                                ~(posts = <<>> /\ HasQuote(queries[1]))))
                 /\ IF posts = <<>> /\ HasQuote(queries[1])
                    THEN /\ pc' = "p1retry"
                         /\ UNCHANGED <<all_posts, seen_ids, yielding_subs,
                                        served, contributed, i>>
                    ELSE Phase1Collect(sub, posts)
    /\ UNCHANGED <<p1_posts, plan, post_limit, expired, quote_retries, j, q, g, c, result,
                   meta, expiredAt, cut, sideVars>>

\* quote fallback: the same query with the quotes stripped
Phase1Retry ==
    /\ pc = "p1retry"
    /\ LET sub == plan.subreddits[i]
           stripped == StripQuotes(queries_for_sub(plan, sub)[1])
           limit == per_query_limit(plan, post_limit)
       IN \E posts \in _run_query(stripped, limit) :
            /\ queries_executed' = Executed(queries_executed, stripped)
            /\ quote_retries' = quote_retries + 1
            /\ runs' = Append(runs, RunEntry("p1", sub, stripped, limit, TRUE,
                                             posts, TRUE))
            /\ Phase1Collect(sub, posts)
    /\ UNCHANGED <<p1_posts, plan, post_limit, expired, j, q, g, c, result, meta,
                   expiredAt, cut, sideVars>>

\* the loop ran out of communities
Phase1Done ==
    /\ pc = "p1" /\ i > Len(plan.subreddits)
    /\ meta' = AfterPhase1(meta, FALSE)
    /\ pc' = "p2" /\ j' = 1 /\ q' = 2
    /\ p1_posts' = Len(all_posts)
    /\ UNCHANGED <<plan, post_limit, expired, all_posts, seen_ids, yielding_subs,
                   queries_executed, quote_retries, i, g, c, result, served,
                   runs, expiredAt, cut, sideVars, contributed>>

(***************************************************************************)
(* _fan_out_search, Phase 2 (depth).                                       *)
(***************************************************************************)
\* mutant: Phase 2 ignores the deadline
Phase2StopsNoDeadline == Len(all_posts) >= post_limit

\* mutant: Phase 2 ignores the cap
Phase2StopsNoCap == _timed_out

\* mutant: Phase 2 never stops before its queries are exhausted
Phase2StopsNever == FALSE

\* len(all_posts) >= post_limit or _timed_out(): the loops stop
Phase2Stops == Len(all_posts) >= post_limit \/ _timed_out

\* a Phase 2 query that has not been run is left, at or after position (j, q)
Phase2WorkLeft ==
    \E jj \in j..Len(yielding_subs) :
        LET n == Len(queries_for_sub(plan, yielding_subs[jj]))
        IN IF jj = j THEN q <= n ELSE 2 <= n

\* _collect(posts); _sleep()
Phase2Collect(posts) ==
    LET r == _collect(posts, all_posts, seen_ids)
    IN /\ all_posts' = r.all
       /\ seen_ids' = r.seen
       /\ served' = ServedAfter(served, posts)
       /\ q' = q + 1
       /\ pc' = "p2"

\* for query_str in queries[1:]: one query of a yielding community
Phase2Search ==
    /\ pc = "p2" /\ j <= Len(yielding_subs)
    /\ ~Phase2Stops
    /\ LET sub == yielding_subs[j]
           queries == queries_for_sub(plan, sub)
           limit == per_query_limit(plan, post_limit)
       IN /\ q <= Len(queries)
          /\ \E posts \in _run_query(queries[q], limit) :
               /\ queries_executed' = Executed(queries_executed, queries[q])
               /\ runs' = Append(runs, RunEntry("p2", sub, queries[q], limit,
                              FALSE, posts,
                              ~(posts = <<>> /\ HasQuote(queries[q]))))
               /\ IF posts = <<>> /\ HasQuote(queries[q])
                  THEN /\ pc' = "p2retry"
                       /\ UNCHANGED <<all_posts, seen_ids, served, q>>
                  ELSE Phase2Collect(posts)
    /\ UNCHANGED <<p1_posts, plan, post_limit, expired, yielding_subs, quote_retries, i, j,
                   g, c, result, meta, expiredAt, cut, sideVars, contributed>>

Phase2Retry ==
    /\ pc = "p2retry"
    /\ LET sub == yielding_subs[j]
           stripped == StripQuotes(queries_for_sub(plan, sub)[q])
           limit == per_query_limit(plan, post_limit)
       IN \E posts \in _run_query(stripped, limit) :
            /\ queries_executed' = Executed(queries_executed, stripped)
            /\ quote_retries' = quote_retries + 1
            /\ runs' = Append(runs, RunEntry("p2", sub, stripped, limit, TRUE,
                                             posts, TRUE))
            /\ Phase2Collect(posts)
    /\ UNCHANGED <<p1_posts, plan, post_limit, expired, yielding_subs, i, j, g, c, result,
                   meta, expiredAt, cut, sideVars, contributed>>

\* the community's queries are exhausted: next yielding community
Phase2NextSub ==
    /\ pc = "p2" /\ j <= Len(yielding_subs)
    /\ ~Phase2Stops
    /\ q > Len(queries_for_sub(plan, yielding_subs[j]))
    /\ j' = j + 1 /\ q' = 2
    /\ UNCHANGED <<p1_posts, plan, post_limit, pc, expired, all_posts, seen_ids,
                   yielding_subs, queries_executed, quote_retries, i, g, c,
                   result, meta, served, runs, expiredAt, cut, sideVars, contributed>>

\* Phase 2 is over (skipped, exhausted, cap reached or deadline passed);
\* posts_before_dedup, posts_after_dedup, total_queries_executed are written
Phase2Done ==
    /\ pc = "p2"
    /\ j > Len(yielding_subs) \/ Phase2Stops
    /\ meta' = [meta EXCEPT !.posts_before_dedup = queries_executed,
                            !.posts_after_dedup = Len(all_posts),
                            !.total_queries_executed = queries_executed]
    /\ cut' = IF _timed_out /\ Len(all_posts) < post_limit /\ Phase2WorkLeft
              THEN cut \cup {"p2"} ELSE cut
    /\ pc' = "gf"
    /\ UNCHANGED <<p1_posts, plan, post_limit, expired, all_posts, seen_ids, yielding_subs,
                   queries_executed, quote_retries, i, j, q, g, c, result,
                   served, runs, expiredAt, sideVars, contributed>>

(***************************************************************************)
(* _fan_out_search, global fallback and return.                            *)
(***************************************************************************)
\* return all_posts[:post_limit]; fetch_posts_noapi goes on to the comments
ReturnPosts ==
    /\ result' = Truncate(all_posts, post_limit)
    /\ pc' = "cm" /\ c' = 1

\* if len(all_posts) < threshold and not _timed_out(): ... ; otherwise return
GlobalCheck ==
    /\ pc = "gf"
    /\ IF Len(all_posts) < Threshold(post_limit) /\ ~_timed_out
       THEN /\ meta' = [meta EXCEPT !.global_fallback_triggered = TRUE]
            /\ pc' = "gq" /\ g' = 1
            /\ UNCHANGED <<cut, c, result>>
       ELSE /\ ReturnPosts
            /\ cut' = cut \cup (IF _timed_out THEN {"gf_late"} ELSE {})
                          \cup (IF Len(all_posts) < Threshold(post_limit)
                                THEN {"gf"} ELSE {})
            /\ UNCHANGED <<meta, g>>
    /\ UNCHANGED <<p1_posts, plan, post_limit, expired, all_posts, seen_ids, yielding_subs,
                   queries_executed, quote_retries, i, j, q, served,
                   runs, expiredAt, sideVars, contributed>>

\* for gq in plan.global_queries: one global query
GlobalSearch ==
    /\ pc = "gq" /\ g <= Len(plan.global_queries)
    /\ ~(Len(all_posts) >= post_limit \/ _timed_out)
    /\ LET gq == plan.global_queries[g]
           limit == post_limit - Len(all_posts)
       IN \E posts \in _run_query(gq, limit) :
            LET r == _collect(posts, all_posts, seen_ids)
            IN /\ queries_executed' = Executed(queries_executed, gq)
               /\ runs' = Append(runs, RunEntry("gf", "all", gq, limit, FALSE,
                                                posts, TRUE))
               /\ all_posts' = r.all
               /\ seen_ids' = r.seen
               /\ served' = ServedAfter(served, posts)
               /\ g' = g + 1
    /\ UNCHANGED <<p1_posts, plan, post_limit, pc, expired, yielding_subs, quote_retries,
                   i, j, q, c, result, meta, expiredAt, cut, sideVars, contributed>>

\* the global loop ends (exhausted, cap reached or deadline passed); return
GlobalDone ==
    /\ pc = "gq"
    /\ g > Len(plan.global_queries) \/ Len(all_posts) >= post_limit \/ _timed_out
    /\ cut' = IF /\ _timed_out /\ g <= Len(plan.global_queries)
                 /\ Len(all_posts) < post_limit
              THEN cut \cup {"gf"} ELSE cut
    /\ ReturnPosts
    /\ UNCHANGED <<p1_posts, plan, post_limit, expired, all_posts, seen_ids, yielding_subs,
                   queries_executed, quote_retries, i, j, q, g, meta,
                   served, runs, expiredAt, sideVars, contributed>>

(***************************************************************************)
(* fetch_posts_noapi, Step 4: comments, and the closing metadata.          *)
(***************************************************************************)
\* post["top_comments"] = _fetch_comments(...); _sleep()
CommentFetch ==
    /\ pc = "cm" /\ c <= Len(result)
    /\ ~expired
    /\ c' = c + 1
    /\ UNCHANGED <<p1_posts, plan, post_limit, pc, expired, all_posts, seen_ids,
                   yielding_subs, queries_executed, quote_retries, i, j, q, g,
                   result, meta, served, runs, expiredAt, cut, sideVars, contributed>>

\* search_metadata["posts_after_dedup"], ["elapsed_seconds"]; return all_posts
Closing(m) ==
    [m EXCEPT !.posts_after_dedup = Len(result), !.has_elapsed_seconds = TRUE]

\* time.monotonic() > deadline: warn, break, close
CommentTimeout ==
    /\ pc = "cm" /\ c <= Len(result)
    /\ expired
    /\ meta' = Closing([meta EXCEPT !.warnings = Append(@, CommentWarning)])
    /\ cut' = cut \cup {"cm"}
    /\ pc' = "done"
    /\ UNCHANGED <<p1_posts, plan, post_limit, expired, all_posts, seen_ids, yielding_subs,
                   queries_executed, quote_retries, i, j, q, g, c, result,
                   served, runs, expiredAt, contributed, sideVars>>

\* the loop ran out of posts: close
Finish ==
    /\ pc = "cm" /\ c > Len(result)
    /\ meta' = Closing(meta)
    /\ pc' = "done"
    /\ UNCHANGED <<p1_posts, plan, post_limit, expired, all_posts, seen_ids, yielding_subs,
                   queries_executed, quote_retries, i, j, q, g, c, result,
                   served, runs, expiredAt, contributed, cut, sideVars>>

Next ==
    \/ Tick
    \/ Phase1Timeout \/ Phase1Search \/ Phase1Retry \/ Phase1Done
    \/ Phase2Search \/ Phase2Retry \/ Phase2NextSub \/ Phase2Done
    \/ GlobalCheck \/ GlobalSearch \/ GlobalDone
    \/ CommentFetch \/ CommentTimeout \/ Finish

Spec == Init /\ [][Next]_vars

(***************************************************************************)
(* _fetch_json.  One step is one session.get attempt or one backoff sleep. *)
(* fetch.gets   : what each GET of the current call met                    *)
(* fetch.slept  : the backoff delays of the current call                   *)
(* fetch.results: what each finished call returned ("json", "None") or     *)
(*                the exception class it let through                       *)
(***************************************************************************)
\* What session.get(url, params=params, timeout=30) can meet: an exception
\* of the requests library (connection error, timeout, retries exhausted),
\* or a response with a status, a Content-Type and a body.
HttpOutcomes ==
    {[raises |-> TRUE, status |-> 0, json_type |-> FALSE, decodable |-> FALSE]}
    \cup [raises : {FALSE}, status : {200, 404, 429}, json_type : BOOLEAN,
          decodable : BOOLEAN]

\* mutant: the except ValueError clause is missing
CaughtOnlyRequests == {"RequestException"}

\* except requests.RequestException / except ValueError
CaughtByFetch == {"RequestException", "ValueError"}

\* What one pass through the try block does with the outcome o at attempt n:
\* "backoff", "None", "json", or the class of the exception raised.
TryBlock(o, n) ==
    IF o.raises THEN "RequestException"                 \* session.get
    ELSE IF o.status = 429
         THEN IF n < Len(BackoffDelays) THEN "backoff" ELSE "None"
    ELSE IF ~o.json_type THEN "None"                    \* Content-Type check
    ELSE IF o.status >= 400 THEN "RequestException"     \* raise_for_status
    ELSE IF ~o.decodable THEN "ValueError"              \* resp.json()
    ELSE "json"

\* the except clauses: a caught exception becomes None
Handled(r) == IF r \in CaughtByFetch THEN "None" ELSE r

FetchStart ==
    /\ fetch.pc \in {"idle", "returned"}
    /\ fetch.calls < MaxCalls
    /\ fetch' = [fetch EXCEPT !.pc = "get", !.attempt = 0, !.gets = <<>>,
                              !.slept = <<>>]
    /\ UNCHANGED <<mainVars, san, find, build, auxVars>>

FetchAttempt ==
    /\ fetch.pc = "get"
    /\ \E o \in HttpOutcomes :
         LET r == Handled(TryBlock(o, fetch.attempt))
         IN fetch' =
              IF r = "backoff"
              THEN [fetch EXCEPT !.pc = "backoff", !.gets = Append(@, o)]
              ELSE [fetch EXCEPT
                      !.pc = IF r \in {"json", "None"} THEN "returned" ELSE "raised",
                      !.gets = Append(@, o),
                      !.calls = @ + 1,
                      !.results = Append(@, r)]
    /\ UNCHANGED <<mainVars, san, find, build, auxVars>>

\* time.sleep(delay); continue
FetchBackoff ==
    /\ fetch.pc = "backoff"
    /\ fetch' = [fetch EXCEPT !.pc = "get",
                              !.slept = Append(@, BackoffDelays[fetch.attempt + 1]),
                              !.attempt = @ + 1]
    /\ UNCHANGED <<mainVars, san, find, build, auxVars>>

\* fetch_posts_noapi is not running
MainIdle ==
    /\ plan = [subreddits |-> <<>>, sub_queries |-> [s \in Subs |-> <<>>],
               global_queries |-> <<QPlain>>]
    /\ post_limit = 0
    /\ pc = "done"
    /\ expired = FALSE
    /\ all_posts = <<>> /\ seen_ids = {} /\ yielding_subs = <<>>
    /\ queries_executed = 0 /\ quote_retries = 0
    /\ i = 1 /\ j = 1 /\ q = 2 /\ g = 1 /\ c = 1
    /\ result = <<>>
    /\ meta = InitialMeta
    /\ served = <<>> /\ runs = <<>>
    /\ expiredAt = "never"
    /\ contributed = {}
    /\ cut = {}
    /\ p1_posts = 0

InitFetch ==
    /\ MainIdle /\ AuxIdle /\ fetch = NoFetch /\ san = NoSan /\ find = NoFind
    /\ build = NoBuild

NextFetch == FetchStart \/ FetchAttempt \/ FetchBackoff

SpecFetch == InitFetch /\ [][NextFetch]_vars

(***************************************************************************)
(* _sanitize_query on its own: the function is applied to a query and then *)
(* to its own output.                                                      *)
(***************************************************************************)
SanAlphabet == {"A", "N", "D", "x", "(", ")", " ", "\t"}
\* (A)ND x
QJoined == <<"(", "A", ")", "N", "D", " ", "x">>
\* (a) AND (b)
QGrouped == <<"(", "a", ")", " ", "A", "N", "D", " ", "(", "b", ")">>
\* every short query over the alphabet, and the two longer ones
SanInputs == SeqsUpTo(SanAlphabet, MaxQueryLen) \cup {QJoined, QGrouped}

SanitizeOnce ==
    /\ san.pc = "idle"
    /\ san' = [san EXCEPT !.pc = "once", !.once = _sanitize_query(san.query)]
    /\ UNCHANGED <<mainVars, fetch, find, build, auxVars>>

SanitizeTwice ==
    /\ san.pc = "once"
    /\ san' = [san EXCEPT !.pc = "twice", !.twice = _sanitize_query(san.once)]
    /\ UNCHANGED <<mainVars, fetch, find, build, auxVars>>

InitSanitize ==
    /\ MainIdle /\ AuxIdle /\ fetch = NoFetch /\ find = NoFind /\ build = NoBuild
    /\ \E query \in SanInputs : san = [NoSan EXCEPT !.query = query]

NextSanitize == SanitizeOnce \/ SanitizeTwice

SpecSanitize == InitSanitize /\ [][NextSanitize]_vars

(***************************************************************************)
(* find_subreddits.  One step is one strategy request with the processing  *)
(* of its response.  A dict is a sequence of entries in insertion order,   *)
(* each with a distinct name.                                              *)
(* find.reqs    : the requests issued so far, by kind                      *)
(* find.present : some request returned data (not None)                    *)
(***************************************************************************)
Names == {"A", "B", "C"}
SubscriberCounts == {0, 500, 2000}

\* the query: whether r/{slug} can be probed, and len(_query_keywords(query));
\* a blank query has no slug and no keyword
QueryKinds ==
    {[slug |-> FALSE, kw |-> 0]} \cup [slug : {TRUE}, kw : 0..MaxKeywords]

\* search_terms = [query] + [keywords[0]] + [keywords[0] keywords[1]]
SearchTerms(kw) == 1 + Min(kw, 2)

\* number of the query's keywords that occur in the name alone: A holds the
\* first keyword, B none, C all of them
NameHits(name, kw) ==
    IF name = "A" THEN Min(1, kw) ELSE IF name = "B" THEN 0 ELSE kw

\* name in d
Has(d, name) == \E k \in 1..Len(d) : d[k].name = name
\* d[name]
Get(d, name) == d[CHOOSE k \in 1..Len(d) : d[k].name = name]
\* d[name] = entry: a new key goes to the end, an old key keeps its place
Put(d, entry) ==
    IF Has(d, entry.name)
    THEN [k \in 1..Len(d) |-> IF d[k].name = entry.name THEN entry ELSE d[k]]
    ELSE Append(d, entry)

\* one child of a /subreddits/search.json listing: dropped by the code (kind
\* is not t5, or over18), or a community with its subscribers and its
\* _relevance_score(name, description, keywords)
SearchChildren(kw) ==
    {[skip |-> TRUE, name |-> "A", subs |-> 0, score |-> 0]}
    \cup {ch \in [skip : {FALSE}, name : Names, subs : SubscriberCounts,
                  score : 0..kw] : ch.score >= NameHits(ch.name, kw)}

\* what _fetch_json can return: None, or a listing of children
Absent == [absent |-> TRUE, children |-> <<>>]
Listings(S) == {Absent} \cup [absent : {FALSE}, children : SeqsUpTo(S, MaxChildren)]
\* an about.json document: None (or not of kind t5), or one community's data
Abouts(S) == {Absent} \cup {[absent |-> FALSE, children |-> <<a>>] : a \in S}

\* the children of one name/description search, in order (lines 659-671)
RECURSIVE AddSearched(_, _)
AddSearched(scored, children) ==
    IF children = <<>> THEN scored
    ELSE LET ch == Head(children)
         IN AddSearched(
              IF ~ch.skip /\ ~Has(scored, ch.name) /\ ch.score > 0
              THEN Append(scored, [name |-> ch.name, subs |-> ch.subs,
                                   score |-> ch.score])
              ELSE scored,
              Tail(children))

\* the posts of the post search, in order (lines 684-689)
RECURSIVE AddPosted(_, _, _)
AddPosted(scored, subs, kw) ==
    IF subs = <<>> THEN scored
    ELSE AddPosted(
           IF ~Has(scored, Head(subs)) /\ NameHits(Head(subs), kw) > 0
           THEN Append(scored, [name |-> Head(subs), subs |-> 0,
                                score |-> NameHits(Head(subs), kw)])
           ELSE scored,
           Tail(subs), kw)

\* unknowns = [name for name, (subs, _s, _d) in scored.items() if subs == 0][:5]
Unknowns(scored) ==
    LET zero == SelectSeq(scored, LAMBDA e : e.subs = 0)
    IN Take([k \in 1..Len(zero) |-> zero[k].name], MaxGapFills)

\* lines 706-708: direct-hit and LLM candidates join the scored dict
RECURSIVE AddCandidates(_, _, _)
AddCandidates(scored, candidates, kw) ==
    IF candidates = <<>> THEN scored
    ELSE LET cand == Head(candidates)
             hits == NameHits(cand.name, kw)
         IN AddCandidates(
              IF Has(scored, cand.name) THEN scored
              ELSE Append(scored, [name |-> cand.name, subs |-> cand.subs,
                                   score |-> IF hits = 0 THEN 1 ELSE hits]),
              Tail(candidates), kw)

\* lines 713-718: LLM-validated communities get the bonus
AddBonus(scored, llm_validated) ==
    [k \in 1..Len(scored) |->
        IF scored[k].name \in llm_validated
        THEN [scored[k] EXCEPT !.score = @ + LlmBonus]
        ELSE scored[k]]

\* sorted(scored.items(), key=(score, subscribers), reverse=True): stable
Before(a, b) == a.score > b.score \/ (a.score = b.score /\ a.subs >= b.subs)
RECURSIVE InsertRanked(_, _)
InsertRanked(ranked, e) ==
    IF ranked = <<>> THEN <<e>>
    ELSE IF Before(Head(ranked), e) THEN <<Head(ranked)>> \o InsertRanked(Tail(ranked), e)
    ELSE <<e>> \o ranked
RECURSIVE Ranked(_)
Ranked(scored) ==
    IF scored = <<>> THEN <<>>
    ELSE InsertRanked(Ranked(SubSeq(scored, 1, Len(scored) - 1)),
                      scored[Len(scored)])

\* niche_slots = max(max_subs // 4, 1)
niche_slots(max_subs) == Max(max_subs \div NicheDivisor, 1)

\* the first selection loop (lines 739-747)
RECURSIVE SelectRanked(_, _, _, _)
SelectRanked(ranked, selected, niche_count, max_subs) ==
    IF ranked = <<>> \/ Len(selected) >= max_subs THEN selected
    ELSE LET e == Head(ranked)
         IN IF e.subs < NicheLimit
            THEN IF niche_count < niche_slots(max_subs)
                 THEN SelectRanked(Tail(ranked), Append(selected, e.name),
                                   niche_count + 1, max_subs)
                 ELSE SelectRanked(Tail(ranked), selected, niche_count, max_subs)
            ELSE SelectRanked(Tail(ranked), Append(selected, e.name),
                              niche_count, max_subs)

\* mutant: the backfill appends without looking at what is selected
RECURSIVE BackfillAll(_, _, _)
BackfillAll(ranked, selected, max_subs) ==
    IF ranked = <<>> THEN selected
    ELSE LET added == Append(selected, Head(ranked).name)
         IN IF Len(added) >= max_subs THEN added
            ELSE BackfillAll(Tail(ranked), added, max_subs)

\* the backfill loop (lines 751-755)
RECURSIVE Backfill(_, _, _)
Backfill(ranked, selected, max_subs) ==
    IF ranked = <<>> THEN selected
    ELSE IF Head(ranked).name \in Range(selected)
         THEN Backfill(Tail(ranked), selected, max_subs)
         ELSE LET added == Append(selected, Head(ranked).name)
              IN IF Len(added) >= max_subs THEN added
                 ELSE Backfill(Tail(ranked), added, max_subs)

\* lines 720-762: rank, select, backfill
Selected(scored, max_subs) ==
    LET ranked == Ranked(scored)
        first == SelectRanked(ranked, <<>>, 0, max_subs)
    IN IF Len(first) < max_subs THEN Backfill(ranked, first, max_subs)
       ELSE first

\* a request of the given kind was issued and returned r
Requested(f, kind, r) ==
    [f EXCEPT !.reqs = Append(@, kind), !.present = @ \/ ~r.absent]

\* Strategy 0: the LLM suggests names and _validate_subreddits checks each;
\* a check returns None (or a community that does not count) or a community
FindLlm ==
    /\ find.pc = "llm"
    /\ \E checks \in SeqsUpTo(Abouts([name : Names, subs : SubscriberCounts]),
                              MaxSuggested) :
         LET RECURSIVE Validated(_, _)
             Validated(rs, valid) ==
                 IF rs = <<>> THEN valid
                 ELSE Validated(Tail(rs),
                                IF Head(rs).absent THEN valid
                                ELSE Put(valid, Head(rs).children[1]))
             valid == Validated(checks, <<>>)
         IN find' = [find EXCEPT
                       !.pc = "direct",
                       !.candidates = valid,
                       !.llm_validated = {valid[k].name : k \in 1..Len(valid)},
                       !.reqs = @ \o [k \in 1..Len(checks) |-> "validate"],
                       !.present = \E k \in 1..Len(checks) : ~checks[k].absent]
    /\ UNCHANGED <<mainVars, fetch, san, build, auxVars>>

\* Strategy 1: does r/{slug} exist?  The about.json document says whether the
\* community is adult-flagged (over18); find.adult keeps the names it said
\* so of.
FindDirect ==
    /\ find.pc = "direct"
    /\ IF ~find.slug
       THEN find' = [find EXCEPT !.pc = "search"]
       ELSE \E r \in Abouts([name : Names \cup {""}, subs : SubscriberCounts,
                             over18 : BOOLEAN]) :
              find' = [Requested(find, "direct", r) EXCEPT
                         !.pc = "search",
                         !.candidates =
                             IF ~r.absent /\ r.children[1].name # ""
                             THEN Put(@, [name |-> r.children[1].name,
                                          subs |-> r.children[1].subs])
                             ELSE @,
                         !.adult =
                             IF ~r.absent /\ r.children[1].over18
                             THEN @ \cup {r.children[1].name} ELSE @]
    /\ UNCHANGED <<mainVars, fetch, san, build, auxVars>>

\* mutant: the remaining search terms are dropped after an absent response
AfterSearchAbortOnAbsent(t, kw, r) ==
    IF r.absent \/ t = SearchTerms(kw) THEN "posts" ELSE "search"

\* for term in search_terms: the loop goes on whatever the response was
AfterSearch(t, kw, r) == IF t = SearchTerms(kw) THEN "posts" ELSE "search"

\* Strategy 2: one /subreddits/search.json request per search term
FindSearch ==
    /\ find.pc = "search"
    /\ \E r \in Listings(SearchChildren(find.kw)) :
         find' = [Requested(find, "search", r) EXCEPT
                    !.scored = AddSearched(@, r.children),
                    !.t = @ + 1,
                    !.pc = AfterSearch(find.t, find.kw, r)]
    /\ UNCHANGED <<mainVars, fetch, san, build, auxVars>>

\* Strategy 3: post search extraction; then the names without a subscriber
\* count are listed
FindPosts ==
    /\ find.pc = "posts"
    /\ \E r \in Listings(Names) :
         LET scored == AddPosted(find.scored, r.children, find.kw)
         IN find' = [Requested(find, "posts", r) EXCEPT
                       !.scored = scored,
                       !.unknowns = Unknowns(scored),
                       !.u = 1,
                       !.pc = IF Unknowns(scored) = <<>> THEN "rank" ELSE "gaps"]
    /\ UNCHANGED <<mainVars, fetch, san, build, auxVars>>

\* one about.json request for a name without a subscriber count
FindGap ==
    /\ find.pc = "gaps"
    /\ LET name == find.unknowns[find.u]
           old == Get(find.scored, name)
       IN \E r \in Abouts({b \in [subs : SubscriberCounts, score : 0..find.kw] :
                              b.score >= NameHits(name, find.kw)}) :
            find' = [Requested(find, "gap", r) EXCEPT
                       !.scored =
                           IF r.absent THEN @
                           ELSE Put(@, [name |-> name,
                                        subs |-> r.children[1].subs,
                                        score |-> Max(old.score,
                                                      r.children[1].score)]),
                       !.u = @ + 1,
                       !.pc = IF find.u = Len(find.unknowns)
                              THEN "rank" ELSE "gaps"]
    /\ UNCHANGED <<mainVars, fetch, san, build, auxVars>>

\* candidates and bonus, ranking, selection; return.  max_subs is an
\* argument of the call; nothing reads it before this point, so its value is
\* drawn here.
FindRank ==
    /\ find.pc = "rank"
    /\ \E max_subs \in 0..MaxWanted :
         LET scored == AddBonus(AddCandidates(find.scored, find.candidates,
                                              find.kw), find.llm_validated)
         IN find' = [find EXCEPT
                       !.pc = "done",
                       !.max_subs = max_subs,
                       !.scored = scored,
                       !.selected = Selected(scored, max_subs)]
    /\ UNCHANGED <<mainVars, fetch, san, build, auxVars>>

InitFind ==
    /\ MainIdle /\ AuxIdle /\ fetch = NoFetch /\ san = NoSan /\ build = NoBuild
    /\ \E k \in QueryKinds :
         find = [NoFind EXCEPT !.pc = "llm", !.slug = k.slug, !.kw = k.kw]

NextFind ==
    FindLlm \/ FindDirect \/ FindSearch \/ FindPosts \/ FindGap \/ FindRank

SpecFind == InitFind /\ [][NextFind]_vars

(***************************************************************************)
(* fetch_posts_noapi, Step 1: building the query plan.                     *)
(* A plan's sub_queries is a dict: a sequence of [name, queries] entries.  *)
(* build.llm    : what the LLM call came to                                *)
(* build.checks : the outcome of each existence check, in order            *)
(***************************************************************************)
\* Names a plan can list.  Upstream, "a" and "A" are one community, whose
\* display name is "A".
PlanNames == {"A", "a", "B"}
Display(name) == IF name = "a" THEN "A" ELSE name

\* mode_to_search(topic, mode).query and _build_sub_query(topic, mode); the
\* two can be the same string
ComposedQuery == "composed"
LightQuery(same) == IF same THEN ComposedQuery ELSE "light"

\* mutant: the lighter query is appended even when it equals the first
_build_user_specified_plan_both(subreddit, same) ==
    [intent |-> "topic",
     subreddits |-> <<subreddit>>,
     sub_queries |-> <<[name |-> subreddit,
                        queries |-> <<ComposedQuery, LightQuery(same)>>]>>,
     global_queries |-> <<ComposedQuery>>,
     source |-> "user_specified"]

\* _build_user_specified_plan(topic, mode, subreddit)
_build_user_specified_plan(subreddit, same) ==
    [intent |-> "topic",
     subreddits |-> <<subreddit>>,
     sub_queries |-> <<[name |-> subreddit,
                        queries |-> IF LightQuery(same) # ComposedQuery
                                    THEN <<ComposedQuery, LightQuery(same)>>
                                    ELSE <<ComposedQuery>>]>>,
     global_queries |-> <<ComposedQuery>>,
     source |-> "user_specified"]

_build_fallback_query_plan ==
    [intent |-> "topic", subreddits |-> <<>>, sub_queries |-> <<>>,
     global_queries |-> <<ComposedQuery>>, source |-> "fallback"]

\* mutant: every community gets the query twice
RECURSIVE AssignSubQueryTwice(_, _, _)
AssignSubQueryTwice(sub_queries, subreddits, sub_query) ==
    IF subreddits = <<>> THEN sub_queries
    ELSE AssignSubQueryTwice(Put(sub_queries,
                                 [name |-> Head(subreddits),
                                  queries |-> <<sub_query, sub_query>>]),
                             Tail(subreddits), sub_query)

\* for sub in plan.subreddits: plan.sub_queries[sub] = [sub_query]
RECURSIVE AssignSubQuery(_, _, _)
AssignSubQuery(sub_queries, subreddits, sub_query) ==
    IF subreddits = <<>> THEN sub_queries
    ELSE AssignSubQuery(Put(sub_queries, [name |-> Head(subreddits),
                                          queries |-> <<sub_query>>]),
                        Tail(subreddits), sub_query)

\* QueryPlan.queries_for_sub on a plan under construction
PlanQueriesFor(p, sub_name) ==
    IF Has(p.sub_queries, sub_name) /\ Get(p.sub_queries, sub_name).queries # <<>>
    THEN Get(p.sub_queries, sub_name).queries
    ELSE p.global_queries

\* for query_str in queries[1:]: the queries Phase 2 runs for a community
Phase2Queries(p, sub_name) ==
    SubSeq(PlanQueriesFor(p, sub_name), 2, Len(PlanQueriesFor(p, sub_name)))

\* The JSON object of an LLM response: the listed names (any names, repeats
\* included), query lists for some names (missing, empty or filled), the
\* global queries and the intent.
QueryListChoices == {<<>>, <<"q1", "q2">>}
EntriesFor(name) == [name : {name}, queries : QueryListChoices]
ParsedSubQueries ==
    {<<>>} \cup {<<e>> : e \in EntriesFor("A") \cup EntriesFor("B")}
           \cup {<<ea, eb>> : ea \in EntriesFor("A"), eb \in EntriesFor("B")}
ParsedPlans ==
    [subreddits : SeqsUpTo(PlanNames, MaxListed),
     sub_queries : ParsedSubQueries,
     global_queries : {<<>>, <<"g1">>, <<"g1", "g2", "g3">>},
     intent : {"", "intent"}]

\* the empty-field guard of _parse_query_plan (lines 503-505)
RECURSIVE Guarded(_, _, _, _)
Guarded(sub_queries, subreddits, global_queries, intent) ==
    IF subreddits = <<>> THEN sub_queries
    ELSE LET sub == Head(subreddits)
         IN Guarded(
              IF ~Has(sub_queries, sub) \/ Get(sub_queries, sub).queries = <<>>
              THEN Put(sub_queries,
                       [name |-> sub,
                        queries |-> IF global_queries # <<>>
                                    THEN Take(global_queries, 2)
                                    ELSE <<intent>>])
              ELSE sub_queries,
              Tail(subreddits), global_queries, intent)

\* mutant: a listed community without a query list is left without one
_parse_query_plan_no_guard(parsed) ==
    IF parsed.subreddits = <<>> THEN NoPlan
    ELSE [intent |-> parsed.intent,
          subreddits |-> parsed.subreddits,
          sub_queries |-> parsed.sub_queries,
          global_queries |-> IF parsed.global_queries # <<>>
                             THEN parsed.global_queries ELSE <<parsed.intent>>,
          source |-> "llm"]

\* mutant: a response listing no community still makes a plan
_parse_query_plan_keep_empty(parsed) ==
    [intent |-> parsed.intent,
     subreddits |-> parsed.subreddits,
     sub_queries |-> Guarded(parsed.sub_queries, parsed.subreddits,
                             parsed.global_queries, parsed.intent),
     global_queries |-> IF parsed.global_queries # <<>>
                        THEN parsed.global_queries ELSE <<parsed.intent>>,
     source |-> "llm"]

\* _parse_query_plan, from the point where the JSON object is at hand
_parse_query_plan(parsed) ==
    IF parsed.subreddits = <<>> THEN NoPlan
    ELSE [intent |-> parsed.intent,
          subreddits |-> parsed.subreddits,
          sub_queries |-> Guarded(parsed.sub_queries, parsed.subreddits,
                                  parsed.global_queries, parsed.intent),
          global_queries |-> IF parsed.global_queries # <<>>
                             THEN parsed.global_queries ELSE <<parsed.intent>>,
          source |-> "llm"]

\* How the LLM call can end without a JSON object: disabled by
\* REDDIT_LLM_EXPANSION, claude_agent_sdk missing, asyncio.TimeoutError, any
\* other exception of the stream, no text, text that is no JSON object, and
\* asyncio.run refusing to start inside a running event loop.
LlmFailures == {"disabled", "no_sdk", "timeout", "exception", "empty",
                "unparseable", "event_loop"}
LlmOutcomes ==
    [kind : LlmFailures, parsed : {NoParsed}]
    \cup [kind : {"json"}, parsed : ParsedPlans]

\* plan = asyncio.run(_llm_build_query_plan(topic, mode)), RuntimeError caught
_llm_build_query_plan(outcome) ==
    IF outcome.kind \in LlmFailures THEN NoPlan
    ELSE _parse_query_plan(outcome.parsed)

\* _validate_subreddits(session, names, max_checks): the keys of the dict it
\* returns, given which of the checks found a community that counts
_validate_subreddits(names, found, max_checks) ==
    {Display(names[k]) : k \in {m \in 1..Min(Len(names), max_checks) : found[m]}}

\* fail_rate = 1 - (len(validated) / checked_count); fail_rate > 0.30.
\* In binary floating point 1 - 0.7 is 0.30000000000000004, so the test is
\* also true when exactly 30% are missing (checked_count 10 or 20).
FailRateExceeds(validated, checked_count) ==
    10 * (checked_count - validated) >= 3 * checked_count

ValidationWarning == "suggested subs failed validation; LLM quality may be degraded"

\* if subreddit: the user-specified plan; else the LLM is asked
BuildStart ==
    /\ build.pc = "start"
    /\ IF build.subreddit # ""
       THEN build' = [build EXCEPT
                        !.pc = "ready",
                        !.plan = _build_user_specified_plan(build.subreddit,
                                                            build.same),
                        !.meta = [@ EXCEPT !.plan_source = "user_specified",
                                           !.subreddits_suggested = 1,
                                           !.subreddits_validated = 1]]
       ELSE \E outcome \in LlmOutcomes :
              build' = [build EXCEPT
                          !.pc = IF _llm_build_query_plan(outcome) = NoPlan
                                 THEN "fallback" ELSE "validate",
                          !.plan = _llm_build_query_plan(outcome),
                          !.llm = outcome]
    /\ UNCHANGED <<mainVars, fetch, san, find, auxVars>>

\* plan is None: the keyword plan, with the communities find_subreddits
\* returns (a duplicate-free list)
BuildFallback ==
    /\ build.pc = "fallback"
    /\ \E found \in {l \in SeqsUpTo(PlanNames, MaxListed) : NoDup(l)} :
         build' = [build EXCEPT
                     !.pc = "ready",
                     !.discovered = TRUE,
                     !.plan = [_build_fallback_query_plan EXCEPT
                                 !.subreddits = found,
                                 !.sub_queries =
                                     AssignSubQuery(<<>>, found,
                                                    LightQuery(build.same))],
                     !.meta = [@ EXCEPT !.plan_source = "fallback",
                                        !.subreddits_suggested = Len(found)]]
    /\ UNCHANGED <<mainVars, fetch, san, find, auxVars>>

\* the LLM plan: existence checks, the warning, the filter
BuildValidate ==
    /\ build.pc = "validate"
    /\ LET names == build.plan.subreddits
           checked_count == Min(Len(names), MaxChecks)
       IN \E found \in [1..checked_count -> BOOLEAN] :
            LET valid_names == _validate_subreddits(names, found, MaxChecks)
                validated == Cardinality(valid_names)
            IN build' = [build EXCEPT
                 !.pc = "ready",
                 !.checks = found,
                 !.plan = [@ EXCEPT
                     !.subreddits = SelectSeq(names, LAMBDA s : s \in valid_names),
                     !.sub_queries = SelectSeq(@, LAMBDA e : e.name \in valid_names)],
                 !.meta = [@ EXCEPT
                     !.plan_source = "llm",
                     !.subreddits_suggested = Len(names),
                     !.subreddits_validated = validated,
                     !.warnings =
                         IF checked_count > 0
                            /\ FailRateExceeds(validated, checked_count)
                         THEN Append(@, ValidationWarning) ELSE @]]
    /\ UNCHANGED <<mainVars, fetch, san, find, auxVars>>

InitPlan ==
    /\ MainIdle /\ AuxIdle /\ fetch = NoFetch /\ san = NoSan /\ find = NoFind
    /\ \E subreddit \in {""} \cup PlanNames, same \in BOOLEAN :
         build = [NoBuild EXCEPT !.pc = "start", !.subreddit = subreddit,
                                 !.same = same]

NextPlan == BuildStart \/ BuildFallback \/ BuildValidate

SpecPlan == InitPlan /\ [][NextPlan]_vars

(***************************************************************************)
(* fetch_posts_noapi, Step 4 with the reply lists.  One step is one        *)
(* iteration of the comment loop.                                          *)
(* enrich.posts        : the list _fan_out_search returned; a post is      *)
(*                       addressable when its id and its subreddit are     *)
(*                       both non-empty                                    *)
(* enrich.top_comments : post["top_comments"] of each post                 *)
(* enrich.requests     : the _fetch_comments calls made so far             *)
(***************************************************************************)
\* what _fetch_comments can return: [] (absent or malformed response, no
\* comment) or a list of comments
\* a comments response: None / not a two-element list (absent), or the
\* kinds of the children of data[1], in upstream order; a child is named
\* by its position in that listing
RECURSIVE ThreadOf(_, _)
ThreadOf(n, stub) ==
    IF n = 0 THEN (IF stub = 1 THEN <<"more">> ELSE <<>>)
    ELSE IF stub = n + 1 THEN Append(ThreadOf(n, 0), "more")
    ELSE Append(ThreadOf(n - 1, stub), "t1")

\* n replies, with or without one continuation stub among them
Threads == {ThreadOf(n, stub) : n \in 0..MaxThread, stub \in 0..(MaxThread + 1)}

CommentResponses ==
    {[absent |-> TRUE, children |-> <<>>]} \cup
    {[absent |-> FALSE, children |-> t] : t \in Threads}

\* mutant: no "if len(comments) >= limit: break"
RECURSIVE _fetch_comments_uncapped(_, _)
_fetch_comments_uncapped(response, limit) ==
    IF response.absent \/ response.children = <<>> THEN <<>>
    ELSE LET n == Len(response.children)
             before == _fetch_comments_uncapped(
                           [response EXCEPT !.children = SubSeq(@, 1, n - 1)], limit)
         IN  IF response.children[n] = "t1" THEN Append(before, n) ELSE before

RECURSIVE CommentsFrom(_, _, _, _)
CommentsFrom(children, k, comments, limit) ==
    IF k > Len(children) THEN comments
    ELSE IF children[k] # "t1" THEN CommentsFrom(children, k + 1, comments, limit)
    ELSE LET added == Append(comments, k)
         IN  IF Len(added) >= limit THEN added
             ELSE CommentsFrom(children, k + 1, added, limit)

\* _fetch_comments(session, subreddit, post_id, limit)
_fetch_comments(response, limit) ==
    IF response.absent THEN <<>>
    ELSE CommentsFrom(response.children, 1, <<>>, limit)

Replies == {_fetch_comments(r, DEFAULT_COMMENT_LIMIT) : r \in CommentResponses}

RECURSIVE NumberedPosts(_)
NumberedPosts(flags) ==
    IF flags = <<>> THEN <<>>
    ELSE Append(NumberedPosts(SubSeq(flags, 1, Len(flags) - 1)),
                [id |-> Len(flags), addressable |-> flags[Len(flags)]])

\* duplicate-free post lists, the k-th post having identifier k
PostLists == {NumberedPosts(flags) : flags \in SeqsUpTo(BOOLEAN, MaxPosts)}

\* mutant: the loop ignores the deadline
EnrichStopsNever == FALSE

\* if time.monotonic() > deadline: at the head of the comment loop
EnrichStops == enrich.expired

\* the list fetch_posts_noapi returns: the posts with their reply lists
WithReplies(posts, top_comments) ==
    [k \in 1..Len(posts) |->
        [id |-> posts[k].id, top_comments |-> top_comments[k]]]

\* the wall clock passes the deadline
EnrichTick ==
    /\ enrich.pc = "loop"
    /\ ~enrich.expired
    /\ enrich' = [enrich EXCEPT !.expired = TRUE]
    /\ UNCHANGED <<mainVars, fetch, san, find, build, kwds, extVars>>

\* loop head: the deadline has passed; warn, break, return all_posts
EnrichTimeout ==
    /\ enrich.pc = "loop" /\ enrich.idx <= Len(enrich.posts)
    /\ EnrichStops
    /\ enrich' = [enrich EXCEPT
                     !.warnings = Append(@, CommentWarning),
                     !.returned = WithReplies(enrich.posts, enrich.top_comments),
                     !.pc = "done"]
    /\ UNCHANGED <<mainVars, fetch, san, find, build, kwds, extVars>>

\* if not post_id or not sub: continue
EnrichSkip ==
    /\ enrich.pc = "loop" /\ enrich.idx <= Len(enrich.posts)
    /\ ~EnrichStops
    /\ ~enrich.posts[enrich.idx].addressable
    /\ enrich' = [enrich EXCEPT !.idx = @ + 1]
    /\ UNCHANGED <<mainVars, fetch, san, find, build, kwds, extVars>>

\* post["top_comments"] = _fetch_comments(...); _sleep()
EnrichFetch ==
    /\ enrich.pc = "loop" /\ enrich.idx <= Len(enrich.posts)
    /\ ~EnrichStops
    /\ enrich.posts[enrich.idx].addressable
    /\ \E response \in CommentResponses :
         LET replies == _fetch_comments(response, DEFAULT_COMMENT_LIMIT)
         IN  enrich' = [enrich EXCEPT
                          !.top_comments[enrich.idx] = replies,
                          !.requests = Append(@, [idx |-> enrich.idx,
                                                  served |-> response,
                                                  replies |-> replies,
                                                  late |-> enrich.expired]),
                          !.idx = @ + 1]
    /\ UNCHANGED <<mainVars, fetch, san, find, build, kwds, extVars>>

\* the loop ran out of posts; return all_posts
EnrichFinish ==
    /\ enrich.pc = "loop" /\ enrich.idx > Len(enrich.posts)
    /\ enrich' = [enrich EXCEPT
                     !.returned = WithReplies(enrich.posts, enrich.top_comments),
                     !.pc = "done"]
    /\ UNCHANGED <<mainVars, fetch, san, find, build, kwds, extVars>>

\* the loop is entered with the posts as _parse_posts built them
\* ("top_comments": []); the deadline may have passed already
InitEnrich ==
    /\ MainIdle /\ fetch = NoFetch /\ san = NoSan /\ find = NoFind
    /\ build = NoBuild /\ kwds = NoKwds /\ ExtIdle
    /\ \E posts \in PostLists, late \in BOOLEAN :
         enrich = [NoEnrich EXCEPT
                     !.pc = "loop", !.posts = posts, !.expired = late,
                     !.top_comments = [k \in 1..Len(posts) |-> <<>>]]

NextEnrich ==
    EnrichTick \/ EnrichTimeout \/ EnrichSkip \/ EnrichFetch \/ EnrichFinish

SpecEnrich == InitEnrich /\ [][NextEnrich]_vars

(***************************************************************************)
(* _query_keywords and _relevance_score.  A string is a sequence of        *)
(* one-character strings.                                                  *)
(***************************************************************************)
\* str.lower on the letters of the model
LowerChar(ch) ==
    CASE ch = "D" -> "d" [] ch = "T" -> "t" [] OTHER -> ch
Lower(str) == [k \in 1..Len(str) |-> LowerChar(str[k])]

\* str.split(): the maximal runs of non-whitespace characters
RECURSIVE SplitFrom(_, _, _, _)
SplitFrom(str, pos, word, out) ==
    IF pos > Len(str)
    THEN IF word = <<>> THEN out ELSE Append(out, word)
    ELSE IF IsSpace(str[pos])
         THEN SplitFrom(str, pos + 1, <<>>,
                        IF word = <<>> THEN out ELSE Append(out, word))
         ELSE SplitFrom(str, pos + 1, Append(word, str[pos]), out)
Split(str) == SplitFrom(str, 1, <<>>, <<>>)

\* kw in text
Contains(text, kw) ==
    \E pos \in 1..(Len(text) - Len(kw) + 1) :
        SubSeq(text, pos, pos + Len(kw) - 1) = kw

\* the stopwords of _query_keywords
StopWords ==
    {<<"a">>, <<"a", "n">>, <<"t", "h", "e">>,
     <<"i", "s">>, <<"o", "f">>, <<"f", "o", "r">>,
     <<"i", "n">>, <<"o", "n">>, <<"t", "o">>,
     <<"a", "n", "d">>, <<"o", "r">>, <<"m", "y">>,
     <<"w", "i", "t", "h">>}

\* [w.lower() for w in query.split()
\*  if len(w) > 2 and w.lower() not in stopwords]
_query_keywords(query) ==
    LET words == Split(query)
        kept == SelectSeq(words,
                          LAMBDA w : Len(w) > 2 /\ Lower(w) \notin StopWords)
    IN [k \in 1..Len(kept) |-> Lower(kept[k])]

\* sum(1 for kw in keywords if kw in f"{name} {description}".lower())
_relevance_score(name, description, keywords) ==
    LET text == Lower(name \o <<" ">> \o description)
    IN Cardinality({k \in 1..Len(keywords) : Contains(text, keywords[k])})

\* the words topics are made of, and the topics: up to MaxTopicWords words
\* separated by one blank or by two
TopicWords == {<<"t", "h", "e">>, <<"T", "h", "e">>, <<"d", "o", "g">>, <<"D", "o", "g">>, <<"o", "x">>}
RECURSIVE Join(_, _)
Join(words, sep) ==
    IF words = <<>> THEN <<>>
    ELSE IF Len(words) = 1 THEN words[1]
    ELSE words[1] \o sep \o Join(Tail(words), sep)
Topics ==
    {Join(words, sep) : words \in SeqsUpTo(TopicWords, MaxTopicWords),
                        sep \in {<<" ">>, <<" ", " ">>}}
CommunityNames == {<<"D", "o", "g", "s">>, <<"c", "a", "t">>}
Descriptions == {<<>>, <<"h", "o", "t", " ", "d", "o", "g">>}

\* keywords = _query_keywords(query)
KeywordsCall ==
    /\ kwds.pc = "start"
    /\ kwds' = [kwds EXCEPT !.pc = "keywords",
                            !.keywords = _query_keywords(kwds.topic)]
    /\ UNCHANGED <<mainVars, fetch, san, find, build, enrich, extVars>>

\* _relevance_score(name, description, keywords)
ScoreCall ==
    /\ kwds.pc = "keywords"
    /\ kwds' = [kwds EXCEPT
                   !.pc = "done",
                   !.score = _relevance_score(kwds.name, kwds.description,
                                              kwds.keywords)]
    /\ UNCHANGED <<mainVars, fetch, san, find, build, enrich, extVars>>

InitKeywords ==
    /\ MainIdle /\ fetch = NoFetch /\ san = NoSan /\ find = NoFind
    /\ build = NoBuild /\ enrich = NoEnrich /\ ExtIdle
    /\ \E topic \in Topics, name \in CommunityNames,
          description \in Descriptions :
         kwds = [NoKwds EXCEPT !.pc = "start", !.topic = topic,
                               !.name = name, !.description = description]

NextKeywords == KeywordsCall \/ ScoreCall

SpecKeywords == InitKeywords /\ [][NextKeywords]_vars


(***************************************************************************)
(* with_retry (factory_utils.py).  The k-th call of fn returns the value   *)
(* k, raises the Exception k, or raises a BaseException that is no         *)
(* Exception (KeyboardInterrupt, CancelledError), also named k.            *)
(***************************************************************************)
\* mutant: the delay is slept after the last failed attempt as well
SleepsAfterEvery(attempt, max_retries) == attempt <= max_retries

\* if attempt < max_retries: ... await asyncio.sleep(delay); delay *= 2
SleepsAfter(attempt, max_retries) == attempt < max_retries

\* for attempt in range(1, max_retries + 1): the loop has an attempt left
RetryRunning == retrying.pc = "loop" /\ retrying.attempt <= retrying.max_retries

\* result = fn(); return result
RetryReturn ==
    /\ RetryRunning
    /\ retrying' = [retrying EXCEPT !.calls = Append(@, "value"),
                              !.outcome = "value", !.value = retrying.attempt,
                              !.pc = "returned"]
    /\ UNCHANGED <<mainVars, fetch, san, find, build, enrich, kwds, pages, env>>

\* except Exception as exc: last_exc = exc; sleep and double the delay
\* unless this was the last attempt
RetryCatch ==
    /\ RetryRunning
    /\ retrying' = [retrying EXCEPT
                    !.calls = Append(@, "Exception"),
                    !.last_exc = retrying.attempt,
                    !.sleeps = IF SleepsAfter(retrying.attempt, retrying.max_retries)
                               THEN Append(@, [after |-> retrying.attempt,
                                               secs |-> retrying.delay])
                               ELSE @,
                    !.delay = IF SleepsAfter(retrying.attempt, retrying.max_retries)
                              THEN @ * 2 ELSE @,
                    !.attempt = @ + 1]
    /\ UNCHANGED <<mainVars, fetch, san, find, build, enrich, kwds, pages, env>>

\* fn raised an exception that "except Exception" does not catch
RetryPropagate ==
    /\ RetryRunning
    /\ retrying' = [retrying EXCEPT !.calls = Append(@, "BaseException"),
                              !.outcome = "BaseException",
                              !.value = retrying.attempt, !.pc = "raised"]
    /\ UNCHANGED <<mainVars, fetch, san, find, build, enrich, kwds, pages, env>>

\* raise last_exc, after the loop; "raise None" is a TypeError
RetryExhausted ==
    /\ retrying.pc = "loop" /\ retrying.attempt > retrying.max_retries
    /\ retrying' = [retrying EXCEPT
                    !.outcome = IF retrying.last_exc = 0 THEN "TypeError"
                                ELSE "Exception",
                    !.value = retrying.last_exc, !.pc = "raised"]
    /\ UNCHANGED <<mainVars, fetch, san, find, build, enrich, kwds, pages, env>>

\* delay = initial_delay; last_exc = None
InitRetry ==
    /\ MainIdle /\ BaseIdle /\ pages = NoPages /\ env = NoEnv
    /\ \E n \in 0..MaxRetries, d \in 0..MaxDelay :
         retrying = [NoRetry EXCEPT !.pc = "loop", !.max_retries = n,
                                 !.initial_delay = d, !.delay = d]

NextRetry == RetryReturn \/ RetryCatch \/ RetryPropagate \/ RetryExhausted

SpecRetry == InitRetry /\ [][NextRetry]_vars


(***************************************************************************)
(* The pagination loop of _search_posts.  A response is absent (_fetch_json*)
(* returned None) or a page: the identifiers of its t3 children, in order, *)
(* and whether data.after names a further page.  The upstream is free in   *)
(* what it puts on a page.  The count of requests is a record kept beside  *)
(* the program: it stops counting at MaxPageRequests, the loop does not,   *)
(* and `odd` keeps telling one request from the next.                      *)
(***************************************************************************)
PageResponses ==
    {[absent |-> TRUE, posts |-> <<>>, after |-> FALSE]} \cup
    {[absent |-> FALSE, posts |-> r, after |-> a] :
        r \in SeqsUpTo(1..MaxPageId, MaxPage), a \in BOOLEAN}

\* after = data.get("data", {}).get("after"); if not after: break
PageContinues(response, collected, added) == response.after

\* for post in page_posts: ... if len(collected) >= limit: break
RECURSIVE CollectPage(_, _, _, _)
CollectPage(page_posts, collected, seen, limit) ==
    IF page_posts = <<>> THEN [collected |-> collected, seen |-> seen]
    ELSE IF Head(page_posts) \in seen
         THEN CollectPage(Tail(page_posts), collected, seen, limit)
         ELSE LET added == Append(collected, Head(page_posts))
                  known == seen \cup {Head(page_posts)}
              IN  IF Len(added) >= limit
                  THEN [collected |-> added, seen |-> known]
                  ELSE CollectPage(Tail(page_posts), added, known, limit)

\* the wall clock passes the deadline of the caller
PagesTick ==
    /\ pages.pc = "loop" /\ ~pages.expired
    /\ pages' = [pages EXCEPT !.expired = TRUE]
    /\ UNCHANGED <<mainVars, fetch, san, find, build, enrich, kwds, retrying, env>>

\* one iteration of "while len(collected) < limit"
SearchPage ==
    /\ pages.pc = "loop" /\ Len(pages.collected) < pages.limit
    /\ \E response \in PageResponses :
         LET got == CollectPage(response.posts, pages.collected,
                                pages.seen_ids, pages.limit)
             asked == [pages EXCEPT
                         !.requests = Min(@ + 1, MaxPageRequests),
                         !.odd = ~@,
                         !.late = @ \/ pages.expired]
         IN  pages' =
               IF response.absent \/ response.posts = <<>>
               THEN [asked EXCEPT !.pc = "done"]
               ELSE IF ~PageContinues(response, pages.collected, got.collected)
               THEN [asked EXCEPT !.collected = got.collected,
                                  !.seen_ids = got.seen, !.pc = "done"]
               ELSE [asked EXCEPT !.collected = got.collected,
                                  !.seen_ids = got.seen, !.after = TRUE,
                                  !.slept = Min(@ + 1, MaxPageRequests)]
    /\ UNCHANGED <<mainVars, fetch, san, find, build, enrich, kwds, retrying, env>>

\* the loop condition fails; return collected
SearchReturn ==
    /\ pages.pc = "loop" /\ Len(pages.collected) >= pages.limit
    /\ pages' = [pages EXCEPT !.pc = "done"]
    /\ UNCHANGED <<mainVars, fetch, san, find, build, enrich, kwds, retrying, env>>

\* collected = []; after = None; seen_ids = set()
InitPages ==
    /\ MainIdle /\ BaseIdle /\ retrying = NoRetry /\ env = NoEnv
    /\ \E limit \in 0..MaxPageLimit, late \in BOOLEAN :
         pages = [NoPages EXCEPT !.pc = "loop", !.limit = limit,
                                 !.expired = late]

NextPages == PagesTick \/ SearchPage \/ SearchReturn

SpecPages == InitPages /\ [][NextPages]_vars

\* the loop goes on as long as it can; the clock owes nothing
SpecPagesFair == SpecPages /\ WF_vars(SearchPage \/ SearchReturn)


(***************************************************************************)
(* REDDIT_LLM_EXPANSION across Step 1 of fetch_posts_noapi.                *)
(* env.value  : the variable in os.environ, Unset when it is not there     *)
(* env.writes : the assignments and removals made so far                   *)
(* env.llm_calls : LLM calls made by find_subreddits                       *)
(***************************************************************************)
EnvValues == {Unset, "", "true", "TRUE", "1", "yes", "false", "False", "0",
              "no", "NO", "off"}

\* str.lower on the values of the model
EnvLower(v) ==
    CASE v = "TRUE" -> "true" [] v = "False" -> "false" [] v = "NO" -> "no"
      [] OTHER -> v

\* os.getenv("REDDIT_LLM_EXPANSION", "true").lower() in ("false", "0", "no")
LlmDisabled(v) ==
    EnvLower(IF v = Unset THEN "true" ELSE v) \in {"false", "0", "no"}

\* mutant: the finally clause removes the variable whatever it was
AfterFinallyPop(prev_llm) == Unset

\* finally: pop the variable if prev_llm is None, else assign prev_llm
AfterFinally(prev_llm) == IF prev_llm = Unset THEN Unset ELSE prev_llm

\* if subreddit: the user-specified plan
EnvUserPlan ==
    /\ env.pc = "start" /\ env.subreddit
    /\ env' = [env EXCEPT !.pc = "planned", !.path = "user_specified"]
    /\ UNCHANGED <<mainVars, fetch, san, find, build, enrich, kwds, retrying, pages>>

\* plan = asyncio.run(_llm_build_query_plan(topic, mode)): None when the
\* variable disables the LLM, when the LLM fails, or on RuntimeError
EnvLlmPlan ==
    /\ env.pc = "start" /\ ~env.subreddit
    /\ \E answered \in BOOLEAN :
         env' = IF answered /\ ~LlmDisabled(env.value)
                THEN [env EXCEPT !.pc = "planned", !.path = "llm"]
                ELSE [env EXCEPT !.pc = "fallback", !.path = "fallback"]
    /\ UNCHANGED <<mainVars, fetch, san, find, build, enrich, kwds, retrying, pages>>

\* prev_llm = os.environ.get(...); os.environ[...] = "false"
EnvForce ==
    /\ env.pc = "fallback"
    /\ env' = [env EXCEPT !.prev_llm = env.value, !.value = "false",
                          !.writes = Append(@, "false"), !.pc = "discover"]
    /\ UNCHANGED <<mainVars, fetch, san, find, build, enrich, kwds, retrying, pages>>

\* plan.subreddits = find_subreddits(session, topic): Strategy 0 asks the LLM
\* unless the variable disables it; the call returns or raises
EnvDiscover ==
    /\ env.pc = "discover"
    /\ \E raises \in BOOLEAN :
         env' = [env EXCEPT
                   !.llm_calls = IF LlmDisabled(env.value) THEN @ ELSE @ + 1,
                   !.raised = raises, !.pc = "finally"]
    /\ UNCHANGED <<mainVars, fetch, san, find, build, enrich, kwds, retrying, pages>>

\* the finally clause; an exception of find_subreddits goes on to the caller
EnvRestore ==
    /\ env.pc = "finally"
    /\ env' = [env EXCEPT
                  !.value = AfterFinally(env.prev_llm),
                  !.writes = Append(@, AfterFinally(env.prev_llm)),
                  !.pc = IF env.raised THEN "raised" ELSE "planned"]
    /\ UNCHANGED <<mainVars, fetch, san, find, build, enrich, kwds, retrying, pages>>

InitEnv ==
    /\ MainIdle /\ BaseIdle /\ retrying = NoRetry /\ pages = NoPages
    /\ \E v \in EnvValues, given \in BOOLEAN :
         env = [NoEnv EXCEPT !.pc = "start", !.subreddit = given,
                             !.initial = v, !.value = v]

NextEnv == EnvUserPlan \/ EnvLlmPlan \/ EnvForce \/ EnvDiscover \/ EnvRestore

SpecEnv == InitEnv /\ [][NextEnv]_vars

(***************************************************************************)
(* Properties.                                                             *)
(***************************************************************************)
Returned == pc \in {"cm", "done"}
InPhase1 == pc \in {"p1", "p1retry"}
IsPrefix(s, t) == Len(s) <= Len(t) /\ \A k \in 1..Len(s) : s[k] = t[k]
RunsOf(phase) == {k \in 1..Len(runs) : runs[k].phase = phase}
Warned(w) == \E k \in 1..Len(meta.warnings) : meta.warnings[k] = w
Quoted(query) == \E k \in 1..Len(query) : query[k] = "\""
Unquote(query) == SelectSeq(query, LAMBDA ch : ch # "\"")

\* the first (not quote-stripped) queries Phase 1 ran, in the order it ran them
Phase1Firsts == SelectSeq(runs, LAMBDA r : r.phase = "p1" /\ ~r.retry)

\* C1: the list _fan_out_search collects, and the list it returns, hold each
\* identifier at most once, in the order in which the identifiers were first
\* served across Phase 1, Phase 2 and the global fallback.
C1_DedupFirstSeen ==
    /\ NoDup(all_posts)
    /\ all_posts = served
    /\ Returned => NoDup(result) /\ IsPrefix(result, served)

\* C1 witness: three searches returned posts, in Phase 1 and in the global
\* fallback, but only two distinct identifiers were served, and both are
\* returned.
C1_Witness ==
    /\ pc = "done"
    /\ Cardinality({k \in 1..Len(runs) : ~runs[k].zero}) >= 3
    /\ \E k \in RunsOf("gf") : ~runs[k].zero
    /\ Len(served) = 2
    /\ Len(result) = 2

\* C2: the returned list never has more than post_limit items.
C2_AtMostPostLimit == Returned => Len(result) <= post_limit

\* C2 witness: Phase 1 alone collected more than post_limit posts and the
\* returned list has exactly post_limit of them.
C2_Witness ==
    /\ pc = "done"
    /\ post_limit > 0
    /\ RunsOf("p1") = 1..Len(runs)
    /\ Len(all_posts) > post_limit
    /\ Len(result) = post_limit

\* C3: when the deadline passes while a community of the plan is still
\* unvisited, Phase 1 starts no further community, the Phase 1 warning is
\* recorded, no Phase 2 and no global query is run, and the posts collected so
\* far are returned (up to post_limit).
C3_DeadlineInPhase1 ==
    expiredAt = "phase1" =>
        /\ \A k \in 1..Len(runs) :
              runs[k].phase = "p1" /\ (runs[k].late => runs[k].retry)
        /\ ~InPhase1 => Warned(P1Warning) /\ ~meta.global_fallback_triggered
        /\ Returned => result = Take(served, post_limit)
        /\ pc = "done" => Len(Phase1Firsts) < Len(plan.subreddits)

\* C3 witness: the deadline passed after the first of two communities had
\* yielded, and the run returned that community's posts.
C3_Witness ==
    /\ pc = "done"
    /\ expiredAt = "phase1"
    /\ Len(plan.subreddits) = 2
    /\ Len(runs) = 1
    /\ result # <<>>

\* C4: _fetch_json never lets an exception through: every finished call
\* returned the parsed JSON or None, and it returned the JSON exactly when its
\* last GET met a 200 response of a JSON content type with a decodable body.
C4_FetchNeverRaises ==
    /\ fetch.pc # "raised"
    /\ \A k \in 1..Len(fetch.results) : fetch.results[k] \in {"json", "None"}
    /\ fetch.pc = "returned" =>
          LET o == fetch.gets[Len(fetch.gets)]
          IN fetch.results[Len(fetch.results)] = "json"
                <=> (~o.raises /\ o.status = 200 /\ o.json_type /\ o.decodable)

\* C4 witness: a call that met an undecodable JSON body returned None, after
\* an earlier call had returned None as well.
C4_Witness ==
    /\ fetch.pc = "returned"
    /\ fetch.calls = 2
    /\ fetch.results = <<"None", "None">>
    /\ LET o == fetch.gets[Len(fetch.gets)]
       IN ~o.raises /\ o.status = 200 /\ o.json_type /\ ~o.decodable

\* number of posts collected when Phase 2 ended (posts_after_dedup holds it
\* until the closing metadata overwrite it)
AfterPhase2 == meta.posts_after_dedup
FallbackDecided == pc \in {"gq", "cm"}
ClaimedThreshold == IF post_limit \div 4 > 5 THEN post_limit \div 4 ELSE 5

\* C5 as stated: after Phase 1 and Phase 2 the global queries are run and
\* global_fallback_triggered is set whenever fewer than max(5, post_limit
\* div 4) posts were collected; otherwise no global query is run and the
\* flag stays false.
C5_AsStated ==
    pc = "cm" =>
        IF AfterPhase2 < ClaimedThreshold
        THEN meta.global_fallback_triggered /\ RunsOf("gf") # {}
        ELSE ~meta.global_fallback_triggered /\ RunsOf("gf") = {}

\* C5 amended: global_fallback_triggered is set exactly when fewer than
\* max(5, post_limit div 4) posts were collected after Phase 1 and Phase 2
\* and the deadline had not passed at that test; global queries are run only
\* then, and the first one is run unless post_limit is already reached or
\* the deadline passes before it.
C5_FallbackTrigger ==
    FallbackDecided =>
        /\ meta.global_fallback_triggered
              <=> (AfterPhase2 < ClaimedThreshold /\ "gf_late" \notin cut)
        /\ RunsOf("gf") # {} => meta.global_fallback_triggered
        /\ (/\ pc = "cm" /\ meta.global_fallback_triggered
            /\ AfterPhase2 < post_limit /\ ~expired)
              => RunsOf("gf") # {}

\* C5 witness: five posts were collected with post_limit 6, so the cap is not
\* reached, and the global fallback is skipped.
C5_Witness ==
    /\ pc = "cm"
    /\ AfterPhase2 >= ClaimedThreshold
    /\ AfterPhase2 < post_limit
    /\ ~expired
    /\ ~meta.global_fallback_triggered
    /\ RunsOf("gf") = {}

\* C6: Phase 1 runs the first query of the communities in plan order, and
\* unless the deadline passes while a community is still unvisited it runs
\* the first query of every community, however many posts were collected.
C6_Phase1VisitsAll ==
    /\ \A k \in 1..Len(Phase1Firsts) :
          /\ k <= Len(plan.subreddits)
          /\ Phase1Firsts[k].sub = plan.subreddits[k]
          /\ Phase1Firsts[k].query =
                (IF plan.sub_queries[plan.subreddits[k]] # <<>>
                 THEN plan.sub_queries[plan.subreddits[k]]
                 ELSE plan.global_queries)[1]
    /\ (~InPhase1 /\ expiredAt # "phase1")
          => Len(Phase1Firsts) = Len(plan.subreddits)

\* C6 witness: with post_limit 1 the first community already returned a
\* post, and the second community was searched all the same.
C6_Witness ==
    /\ pc = "done"
    /\ post_limit = 1
    /\ ~expired
    /\ Len(Phase1Firsts) = 2
    /\ ~Phase1Firsts[1].zero
    /\ Phase1Firsts[2].sent

\* C7: Phase 2 runs queries only for communities whose Phase 1 search served
\* an identifier not seen before, and only after Phase 1 has ended.
C7_Phase2OnlyYielding ==
    /\ \A k \in RunsOf("p2") : runs[k].sub \in contributed
    /\ \A k \in RunsOf("p2") : \A m \in RunsOf("p1") : m < k
    /\ InPhase1 => RunsOf("p2") = {}

\* C7 witness: community B returned posts in Phase 1, all of them already
\* collected from A; B has a second query, and Phase 2 ran A's only.
C7_Witness ==
    /\ pc = "done"
    /\ plan.subreddits = <<"A", "B">>
    /\ Len(plan.sub_queries["B"]) = 2
    /\ contributed = {"A"}
    /\ \E k \in RunsOf("p1") : runs[k].sub = "B" /\ ~runs[k].zero
    /\ RunsOf("p2") # {}
    /\ ~expired
    /\ Len(all_posts) < post_limit

P2Warning == "Pipeline timeout during Phase 2 depth"
GlobalWarning == "Pipeline timeout during global fallback"

\* C9 as stated: when fetch_posts_noapi finishes the metadata hold
\* elapsed_seconds, and every phase the deadline cut short (Phase 1, Phase 2,
\* global fallback, comments) is reported by a warning.
C9_AsStated ==
    pc = "done" =>
        /\ meta.has_elapsed_seconds
        /\ "p1" \in cut => Warned(P1Warning)
        /\ "p2" \in cut => Warned(P2Warning)
        /\ "gf" \in cut => Warned(GlobalWarning)
        /\ "cm" \in cut => Warned(CommentWarning)

\* C10 as stated: with at least one community, every search returning
\* nothing and the deadline not reached, the run returns the empty list,
\* global_fallback_triggered is set, and at least one warning is recorded.
C10_AsStated ==
    (/\ pc = "done"
     /\ plan.subreddits # <<>>
     /\ \A k \in 1..Len(runs) : runs[k].zero
     /\ ~expired)
        => /\ result = <<>>
           /\ meta.global_fallback_triggered
           /\ meta.warnings # <<>>


\* Phase 1 has ended and it alone collected at least post_limit posts
Phase1Enough == ~InPhase1 /\ p1_posts >= post_limit

C12_AsStated ==
    (pc = "done" /\ plan.subreddits = <<>>) => result = <<>>


\* the GET met an HTTP 429 response
Is429(o) == ~o.raises /\ o.status = 429

\* C13: within one _fetch_json call every GET but the last met a 429, the
\* waits between the GETs are 5, 10, 20 seconds in that order, there are at
\* most four GETs, and a call whose last GET met a 429 made four GETs and
\* returned None; nothing is raised.
C13_Backoff429 ==
    /\ IsPrefix(fetch.slept, <<5, 10, 20>>)
    /\ Len(fetch.gets) <= 4
    /\ \A k \in 1..(Len(fetch.gets) - 1) : Is429(fetch.gets[k])
    /\ fetch.pc = "get" =>
          /\ Len(fetch.slept) = Len(fetch.gets)
          /\ \A k \in 1..Len(fetch.gets) : Is429(fetch.gets[k])
    /\ fetch.pc = "backoff" =>
          /\ Len(fetch.slept) = Len(fetch.gets) - 1
          /\ Is429(fetch.gets[Len(fetch.gets)])
    /\ fetch.pc = "returned" =>
          /\ Len(fetch.slept) = Len(fetch.gets) - 1
          /\ Is429(fetch.gets[Len(fetch.gets)]) =>
                /\ Len(fetch.gets) = 4
                /\ fetch.results[Len(fetch.results)] = "None"
    /\ fetch.pc # "raised"

\* C13 witness: four GETs in a row met a 429; the call waited 5, 10 and 20
\* seconds and returned None.
C13_Witness ==
    /\ fetch.pc = "returned"
    /\ Len(fetch.gets) = 4
    /\ \A k \in 1..4 : Is429(fetch.gets[k])
    /\ fetch.slept = <<5, 10, 20>>
    /\ fetch.results[Len(fetch.results)] = "None"


\* C14 as stated: sanitizing the output of _sanitize_query changes nothing,
\* for every query and for (A)ND x in particular.
C14_AsStated == san.pc = "twice" => san.twice = san.once

\* AND stands in s as a token of its own, between whitespace or the ends
HasAndToken(s) ==
    \E p \in 1..Len(s) :
        /\ p + 2 <= Len(s)
        /\ s[p] = "A" /\ s[p + 1] = "N" /\ s[p + 2] = "D"
        /\ p = 1 \/ IsSpace(s[p - 1])
        /\ p + 3 > Len(s) \/ IsSpace(s[p + 3])

\* C15 as stated: the output of _sanitize_query holds no parenthesis and no
\* standalone AND, has no leading, trailing or repeated whitespace (and no
\* whitespace other than the blank), and (a) AND (b) becomes a b.
C15_AsStated ==
    san.pc # "idle" =>
          /\ san.query = QGrouped => san.once = <<"a", " ", "b">>
          /\ \A k \in 1..Len(san.once) : san.once[k] \notin {"(", ")", "\t"}
          /\ ~HasAndToken(san.once)
          /\ san.once # <<>> => san.once[1] # " " /\ san.once[Len(san.once)] # " "
          /\ \A k \in 1..(Len(san.once) - 1) :
                ~(san.once[k] = " " /\ san.once[k + 1] = " ")


\* the names of a dict
NamesOf(d) == {d[k].name : k \in 1..Len(d)}

\* C16: the list find_subreddits returns has at most max_subs names, no name
\* twice, and only names of the candidate pool.
C16_AtMostMaxSubs ==
    find.pc = "done" =>
        /\ Len(find.selected) <= find.max_subs
        /\ NoDup(find.selected)
        /\ Range(find.selected) \subseteq NamesOf(find.scored)

\* C16 witness: three candidates for two slots, all of them niche; the first
\* loop filled the one niche slot, the backfill the other slot, and the
\* third candidate is left out.
C16_Witness ==
    /\ find.pc = "done"
    /\ find.max_subs = 2
    /\ Len(find.scored) = 3
    /\ \A k \in 1..3 : find.scored[k].subs < 1000
    /\ Len(find.selected) = 2


\* the strategy requests of a find_subreddits call (existence checks of LLM
\* suggestions and subscriber gap-fills left out), in the order issued
StrategyRequests ==
    SelectSeq(find.reqs, LAMBDA kind : kind \in {"direct", "search", "posts"})

\* C17: whatever the earlier requests returned, find_subreddits issues the
\* direct probe (when the query has a slug), one name/description search per
\* search term and the post search, in that order; and when every request
\* returned None it returns the empty list.
C17_StrategiesIndependent ==
    /\ find.pc \in {"gaps", "rank", "done"} =>
          StrategyRequests =
              (IF find.slug THEN <<"direct">> ELSE <<>>)
              \o [k \in 1..(IF find.kw >= 2 THEN 3 ELSE 1 + find.kw) |-> "search"]
              \o <<"posts">>
    /\ (find.pc = "done" /\ ~find.present) => find.selected = <<>>

\* C17 witness: a query with two keywords; the probe, the three searches and
\* the post search were all issued, all returned None, and the empty list
\* is returned.
C17_Witness ==
    /\ find.pc = "done"
    /\ find.kw = 2
    /\ ~find.present
    /\ find.reqs = <<"direct", "search", "search", "search", "posts">>
    /\ find.selected = <<>>


\* the LLM call gave no plan: it failed, or its response lists no community
NoLlmPlan == build.llm.kind \in LlmFailures \/ build.llm.parsed.subreddits = <<>>

\* C18: when no community is supplied and the LLM call gives no plan
\* (disabled, SDK missing, timeout, exception, empty or unparseable
\* response, running event loop, or no community listed), the plan is the
\* keyword plan filled by discovery, plan_source is "fallback", no existence
\* check is made, and the plan goes to the fan-out.
C18_FallbackOnNoPlan ==
    /\ build.pc = "fallback" => build.subreddit = "" /\ NoLlmPlan
    /\ build.pc = "validate" => ~NoLlmPlan
    /\ (build.pc = "ready" /\ build.subreddit = "" /\ NoLlmPlan) =>
          /\ build.discovered
          /\ build.checks = <<>>
          /\ build.meta.plan_source = "fallback"
          /\ build.plan.source = "fallback"
          /\ build.plan.global_queries = <<ComposedQuery>>
          /\ build.meta.subreddits_suggested = Len(build.plan.subreddits)

\* C18 witness: the LLM answered with a JSON object that lists no community;
\* discovery found two communities and the keyword plan is ready.
C18_Witness ==
    /\ build.pc = "ready"
    /\ build.llm.kind = "json"
    /\ build.llm.parsed.global_queries # <<>>
    /\ build.meta.plan_source = "fallback"
    /\ Len(build.plan.subreddits) = 2

\* existence checks that did not find a community that counts
FailedChecks == Cardinality({k \in 1..Len(build.checks) : ~build.checks[k]})
\* the listed names whose existence check found a community that counts
RECURSIVE FoundNames(_, _)
FoundNames(names, found) ==
    IF names = <<>> \/ found = <<>> THEN <<>>
    ELSE (IF Head(found) THEN <<Head(names)>> ELSE <<>>)
         \o FoundNames(Tail(names), Tail(found))

\* C19 as stated: on the LLM path a warning is recorded exactly when more
\* than 30% of the checked names failed the check, and in every case the
\* plan keeps source "llm" and goes to the fan-out with the names that
\* passed.
C19_AsStated ==
    (build.pc = "ready" /\ build.meta.plan_source = "llm") =>
        /\ build.meta.warnings # <<>>
              <=> 10 * FailedChecks > 3 * Len(build.checks)
        /\ build.plan.source = "llm"
        /\ build.plan.subreddits =
              FoundNames(build.llm.parsed.subreddits, build.checks)

\* the query list the LLM response gives the community, <<>> if none
OwnQueries(sub) ==
    IF Has(build.llm.parsed.sub_queries, sub)
    THEN Get(build.llm.parsed.sub_queries, sub).queries ELSE <<>>

\* every community of the plan has a non-empty query list of its own
EveryCommunityHasQueries ==
    \A k \in 1..Len(build.plan.subreddits) :
        /\ Has(build.plan.sub_queries, build.plan.subreddits[k])
        /\ Get(build.plan.sub_queries, build.plan.subreddits[k]).queries # <<>>

C21_CommentLoopDeadline ==
    /\ \A k \in 1..Len(enrich.requests) :
          /\ ~enrich.requests[k].late
          /\ enrich.requests[k].idx < enrich.idx
          /\ \A m \in 1..(k - 1) : enrich.requests[m].idx < enrich.requests[k].idx
          /\ enrich.top_comments[enrich.requests[k].idx] =
                enrich.requests[k].replies
    /\ \A n \in 1..Len(enrich.posts) :
          (\A k \in 1..Len(enrich.requests) : enrich.requests[k].idx # n)
              => enrich.top_comments[n] = <<>>
    /\ enrich.pc = "done" =>
          /\ Len(enrich.returned) = Len(enrich.posts)
          /\ \A n \in 1..Len(enrich.posts) :
                /\ enrich.returned[n].id = enrich.posts[n].id
                /\ enrich.returned[n].top_comments = enrich.top_comments[n]
          /\ enrich.idx <= Len(enrich.posts) =>
                enrich.expired /\ enrich.warnings = <<CommentWarning>>
          /\ enrich.idx > Len(enrich.posts) => enrich.warnings = <<>>

\* C21 witness: of three posts the first got its replies, then the deadline
\* passed; the other two keep the empty list, the warning is recorded and
\* the three posts are returned.
C21_Witness ==
    /\ enrich.pc = "done"
    /\ Len(enrich.posts) = 3
    /\ enrich.idx = 2
    /\ enrich.returned[1].top_comments = <<1>>
    /\ enrich.returned[2].top_comments = <<>>
    /\ enrich.returned[3].top_comments = <<>>
    /\ enrich.posts[2].addressable /\ enrich.posts[3].addressable
    /\ enrich.warnings # <<>>


\* C22 as stated: between any two consecutive search requests of the fan-out
\* (Phase 1, Phase 2, quote-stripped retries, global fallback) the
\* inter-request delay _sleep() is taken.
C22_AsStated ==
    \A k \in 1..(Len(runs) - 1) :
        (runs[k].sent /\ runs[k + 1].sent) => runs[k].slept


\* C23 as stated: the plan handed to _fan_out_search, whichever path built
\* it, lists no community twice, and every key of sub_queries is a listed
\* community.
C23_AsStated ==
    build.pc = "ready" =>
        /\ NoDup(build.plan.subreddits)
        /\ \A k \in 1..Len(build.plan.sub_queries) :
              build.plan.sub_queries[k].name \in Range(build.plan.subreddits)

\* C24: when the caller supplies a community the plan holds that community
\* alone, with the composed query followed by the lighter query only if the
\* two differ; global_queries is the composed query alone, the source is
\* "user_specified", and the run asks no LLM, discovers nothing and checks
\* no name.  No other path gives a plan of that source.
C24_UserSpecifiedPlan ==
    /\ (build.subreddit # "" /\ build.pc \notin {"idle", "start"}) =>
          /\ build.pc = "ready"
          /\ build.plan.subreddits = <<build.subreddit>>
          /\ build.plan.sub_queries =
                <<[name |-> build.subreddit,
                   queries |-> IF build.same THEN <<"composed">>
                               ELSE <<"composed", "light">>]>>
          /\ build.plan.global_queries = <<"composed">>
          /\ build.plan.source = "user_specified"
          /\ build.meta.plan_source = "user_specified"
          /\ build.llm.kind = "none"
          /\ ~build.discovered
          /\ build.checks = <<>>
          /\ build.meta.warnings = <<>>
    /\ build.plan.source = "user_specified" => build.subreddit # ""

\* C24 witness: the caller named r/a, the two queries differ, and the plan
\* is ready with both.
C24_Witness ==
    /\ build.pc = "ready"
    /\ build.subreddit = "a"
    /\ ~build.same
    /\ Len(build.plan.sub_queries[1].queries) = 2
    /\ build.plan.subreddits = <<"a">>


\* C26 as stated: after the validation pass of the LLM path, plan.subreddits
\* is the subsequence, in the original order, of the suggested names whose
\* existence check succeeded, whatever the upstream's spelling of the name;
\* sub_queries keeps the entries of exactly those names; at most 20 checks
\* are made.
C26_AsStated ==
    (build.pc = "ready" /\ build.meta.plan_source = "llm") =>
        LET suggested == _parse_query_plan(build.llm.parsed)
            kept == FoundNames(suggested.subreddits, build.checks)
        IN /\ build.plan.subreddits = kept
           /\ build.plan.sub_queries =
                 SelectSeq(suggested.sub_queries,
                           LAMBDA e : e.name \in Range(kept))
           /\ Len(build.checks) <= 20


\* the step makes a _run_query call
Issues == Len(runs') = Len(runs) + 1
\* the call the step makes
Issued == runs'[Len(runs')]

C27_RequestSizes ==
    [][Issues =>
          LET n == IF Len(plan.subreddits) = 0 THEN 1 ELSE Len(plan.subreddits)
              share == post_limit \div n
              capped == IF share > 5 THEN 5 ELSE share
              budget == IF capped < 2 THEN 2 ELSE capped
          IN IF Issued.phase = "gf"
             THEN /\ Issued.limit = post_limit - Len(all_posts)
                  /\ Issued.limit > 0
             ELSE /\ Issued.phase \in {"p1", "p2"}
                  /\ Issued.limit = budget]_vars

\* C27 witness: with post_limit 6 and one community the Phase 1 call asked
\* for 5 posts and got 3, and the global call asked for the 3 still missing.
C27_Witness ==
    /\ pc = "done"
    /\ post_limit = 6
    /\ Len(plan.subreddits) = 1
    /\ \E k \in RunsOf("p1") : runs[k].limit = 5 /\ runs[k].retry
    /\ p1_posts = 3
    /\ \E k \in RunsOf("gf") : runs[k].limit = 3 /\ runs[k].sent


\* the candidates of the pool, and the selected ones, with fewer than 1000
\* subscribers
NichePool == {k \in 1..Len(find.scored) : find.scored[k].subs < 1000}
NicheSelected ==
    {k \in 1..Len(find.selected) : Get(find.scored, find.selected[k]).subs < 1000}

\* C28 as stated: a find_subreddits call that asks for at least one
\* community returns at least k = max(max_subs div 4, 1) candidates with
\* fewer than 1000 subscribers whenever the pool holds that many, however
\* many larger communities rank higher; and the slots that are not filled
\* by then are filled from the rest of the ranking, whatever the size.
C28_AsStated ==
    (find.pc = "done" /\ find.max_subs >= 1) =>
        LET k == IF find.max_subs \div 4 > 1 THEN find.max_subs \div 4 ELSE 1
        IN /\ Cardinality(NichePool) >= k => Cardinality(NicheSelected) >= k
           /\ Len(find.selected) =
                 (IF Len(find.scored) < find.max_subs
                  THEN Len(find.scored) ELSE find.max_subs)


\* C29: on the keyword-fallback path every discovered community has a query
\* list of its own that holds one query, the same for all of them, so the
\* Phase 2 loop has no query to run for any community of such a plan.
C29_FallbackSingleQuery ==
    (build.pc = "ready" /\ build.meta.plan_source = "fallback") =>
        /\ Len(build.plan.sub_queries) = Len(build.plan.subreddits)
        /\ \A k \in 1..Len(build.plan.subreddits) :
              LET sub == build.plan.subreddits[k]
              IN /\ Has(build.plan.sub_queries, sub)
                 /\ Len(Get(build.plan.sub_queries, sub).queries) = 1
                 /\ Get(build.plan.sub_queries, sub).queries =
                       Get(build.plan.sub_queries, build.plan.subreddits[1]).queries
                 /\ Phase2Queries(build.plan, sub) = <<>>

\* C29 witness: the LLM call timed out, discovery found three communities,
\* and the keyword plan is ready.
C29_Witness ==
    /\ build.pc = "ready"
    /\ build.llm.kind = "timeout"
    /\ build.plan.source = "fallback"
    /\ Len(build.plan.subreddits) = 3
    /\ Len(build.plan.sub_queries) = 3

\* the fan-out side of C29: a plan in which every community has a query
\* list of its own with one query gets no Phase 2 call
SingleQueryPlanSkipsPhase2 ==
    (\A k \in 1..Len(plan.subreddits) :
        Len(plan.sub_queries[plan.subreddits[k]]) = 1)
        => RunsOf("p2") = {}


\* C30 as stated: _query_keywords gives lowercase tokens, none twice, none
\* of length 2 or less, none a stopword; and _relevance_score of these
\* keywords is the number of distinct tokens that occur in the lowercased
\* "name description", a token repeated in the topic counting once.
C30_AsStated ==
    /\ kwds.pc \in {"keywords", "done"} =>
          /\ NoDup(kwds.keywords)
          /\ \A k \in 1..Len(kwds.keywords) :
                /\ Len(kwds.keywords[k]) > 2
                /\ kwds.keywords[k] \notin StopWords
                /\ kwds.keywords[k] = Lower(kwds.keywords[k])
    /\ kwds.pc = "done" =>
          kwds.score =
              Cardinality({w \in Range(kwds.keywords) :
                  Contains(Lower(kwds.name \o <<" ">> \o kwds.description), w)})


\* C31: in every list fetch_posts_noapi returns, each item's top_comments has
\* at most DEFAULT_COMMENT_LIMIT entries, every entry is a child of kind t1 of
\* the listing served for that item, the entries are in upstream order (they
\* are the first t1 children, none left out), and at most one comment-listing
\* request was issued for the item.
C31_TopComments ==
    enrich.pc = "done" =>
        \A n \in 1..Len(enrich.returned) :
            LET mine == {k \in 1..Len(enrich.requests) : enrich.requests[k].idx = n}
                got == enrich.returned[n].top_comments
            IN  /\ Cardinality(mine) <= 1
                /\ Len(got) <= DEFAULT_COMMENT_LIMIT
                /\ mine = {} => got = <<>>
                /\ \A k \in mine :
                      LET children == enrich.requests[k].served.children
                      IN  /\ \A at \in 1..Len(got) :
                                /\ got[at] \in 1..Len(children)
                                /\ children[got[at]] = "t1"
                          /\ \A at \in 1..(Len(got) - 1) : got[at] < got[at + 1]
                          /\ \A child \in 1..Len(children) :
                                (children[child] = "t1" /\ Len(got) > 0 /\ child < got[Len(got)])
                                    => \E at \in 1..Len(got) : got[at] = child

\* C31 witness: a returned item whose listing held six replies and a
\* continuation stub in third place keeps replies 1, 2, 4, 5 and 6.
C31_Witness ==
    /\ enrich.pc = "done"
    /\ \E k \in 1..Len(enrich.requests) :
          /\ enrich.requests[k].served.children =
                <<"t1", "t1", "more", "t1", "t1", "t1", "t1">>
          /\ enrich.returned[enrich.requests[k].idx].top_comments = <<1, 2, 4, 5, 6>>


RECURSIVE Pow2(_)
Pow2(k) == IF k = 0 THEN 1 ELSE 2 * Pow2(k - 1)

\* C32: with_retry(fn, max_retries=n, initial_delay=d) with n >= 1 calls fn
\* at most n times; a call that succeeds is the last call and its value is
\* returned; after the k-th attempt failed with an Exception, k < n, it has
\* slept d*2^(k-1), and these are the only sleeps (none after the n-th); and
\* when all n attempts failed it raises the exception of the n-th.
C32_WithRetry ==
    (retrying.pc # "idle" /\ retrying.max_retries >= 1) =>
        LET n == retrying.max_retries
            d == retrying.initial_delay
            made == Len(retrying.calls)
            failed == {k \in 1..made : retrying.calls[k] = "Exception"}
        IN  /\ made <= n
            /\ \A k \in 1..made :
                  retrying.calls[k] = "value" =>
                      /\ k = made /\ retrying.pc = "returned"
                      /\ retrying.outcome = "value" /\ retrying.value = k
            /\ \A k \in failed :
                  k < n => \E s \in 1..Len(retrying.sleeps) :
                              retrying.sleeps[s] = [after |-> k, secs |-> d * Pow2(k - 1)]
            /\ \A s \in 1..Len(retrying.sleeps) :
                  /\ retrying.sleeps[s].after \in failed
                  /\ retrying.sleeps[s].after < n
                  /\ \A t \in 1..(s - 1) :
                        retrying.sleeps[t].after < retrying.sleeps[s].after
            /\ (failed = 1..n /\ retrying.pc # "loop") =>
                  /\ retrying.pc = "raised"
                  /\ retrying.outcome = "Exception" /\ retrying.value = n
            /\ retrying.pc = "returned" => retrying.calls[made] = "value"

\* C32 witness: three attempts allowed, initial delay 2, all three failed:
\* it slept 2 and 4, not after the third, and raised the third exception.
C32_Witness ==
    /\ retrying.pc = "raised"
    /\ retrying.max_retries = 3 /\ retrying.initial_delay = 2
    /\ retrying.calls = <<"Exception", "Exception", "Exception">>
    /\ retrying.sleeps = <<[after |-> 1, secs |-> 2], [after |-> 2, secs |-> 4]>>
    /\ retrying.outcome = "Exception" /\ retrying.value = 3


\* C33 as stated: _search_posts terminates whatever the upstream serves: the
\* pagination loop comes to its return.
C33_AsStated == <>(pages.pc = "done")


\* C34 as stated: once the deadline has passed the fan-out starts no search
\* request: no _run_query call that reaches the upstream is made late, be
\* it a community query, a quote-stripped retry or a global fallback query.
C34_AsStated ==
    \A k \in 1..Len(runs) : runs[k].sent => ~runs[k].late


\* the number of posts collected by the calls before the k-th
RECURSIVE CollectedBefore(_)
CollectedBefore(k) ==
    IF k <= 1 THEN 0 ELSE CollectedBefore(k - 1) + runs[k - 1].added

\* the posts _collect took from the k-th _run_query call
CollectedFrom(k) ==
    {all_posts[p] : p \in (CollectedBefore(k) + 1)..(CollectedBefore(k) + runs[k].added)}

\* C35 as stated: every community marked yielding in Phase 1 has at least one
\* of the posts collected from its Phase 1 query in the list _fan_out_search
\* returns.
C35_AsStated ==
    Returned =>
        \A k \in RunsOf("p1") :
            runs[k].added > 0 => CollectedFrom(k) \cap Range(result) # {}


\* C36 as stated: after _fan_out_search, subreddits_searched is the number of
\* communities for which a Phase 1 request was issued, and
\* subreddits_yielded does not exceed it.
C36_AsStated ==
    Returned =>
        /\ meta.subreddits_searched =
              Cardinality({k \in RunsOf("p1") : runs[k].sent /\ ~runs[k].retry})
        /\ meta.subreddits_yielded <= meta.subreddits_searched


\* C37 as stated: when the run finishes, total_queries_executed is the number
\* of search queries the fan-out executed: Phase 1, Phase 2, quote-stripped
\* retries and global fallback queries.
C37_AsStated ==
    pc = "done" =>
        meta.total_queries_executed =
            Cardinality({k \in 1..Len(runs) : _sanitize_query(runs[k].query) # <<>>})


\* C38 as stated: on the LLM path, after the validation pass,
\* subreddits_validated is the number of communities left in plan.subreddits.
C38_AsStated ==
    (build.pc = "ready" /\ build.meta.plan_source = "llm") =>
        build.meta.subreddits_validated = Len(build.plan.subreddits)


\* C39 as stated: no community the upstream reports as adult-flagged is
\* returned by find_subreddits.
C39_AsStated ==
    find.pc = "done" => Range(find.selected) \cap find.adult = {}


\* C40: fetch_posts_noapi leaves REDDIT_LLM_EXPANSION as it found it: the
\* variable differs from what it was only while discovery runs on the
\* keyword-fallback path, where it is "false" and discovery makes no LLM
\* call; when Step 1 is over, by return or by an exception of discovery, it
\* has its previous value or is unset as before; and on the other paths it
\* is never written.
C40_EnvRestored ==
    /\ env.pc \in {"planned", "raised"} => env.value = env.initial
    /\ env.value # env.initial => env.pc \in {"discover", "finally"}
    /\ env.pc \in {"discover", "finally"} => env.value = "false"
    /\ env.llm_calls = 0
    /\ env.path # "fallback" => env.writes = <<>>
    /\ env.pc \in {"start", "fallback"} => env.writes = <<>>

\* C40 witness: the variable was unset, no LLM plan was had, discovery
\* raised: the variable was set to "false", then removed, and is unset.
C40_Witness ==
    /\ env.pc = "raised"
    /\ env.initial = Unset /\ env.value = Unset
    /\ env.writes = <<"false", Unset>>

====
